---- MODULE Spec2Model ----
(***************************************************************************)
(* State-machine model of the SIT Scholar assistant (sit-search-):          *)
(*   - the retry wrappers retryWithBackoff and withRetry,                   *)
(*   - generateAnswer of services/geminiService.ts with the module-level    *)
(*     abort controller and cancelCurrentRequest,                           *)
(*   - the keyword filter over documents and the document-store search.     *)
(* JavaScript strings that the code inspects (toLowerCase, split,           *)
(* includes) are sequences of one-character strings; strings the code only  *)
(* passes along are TLA+ strings.                                           *)
(***************************************************************************)
EXTENDS Integers, Sequences, FiniteSets, TLC

VARIABLES
    \* retryWithBackoff (unnamed/part_001, services/databaseService.ts)
    rb_pc, rb_maxRetries, rb_initialBackoff, rb_attempt, rb_lastError,
    rb_result, rb_thrown, rb_calls, rb_outcomes, rb_delays,
    \* withRetry (services/geminiService.ts)
    wr_pc, wr_maxRetries, wr_delayMs, wr_attempt, wr_lastError,
    wr_result, wr_thrown, wr_calls, wr_outcomes, wr_delays,
    \* the API client singleton and the credential (geminiService.ts 6-30)
    aiInstance, apiKey,
    \* the abort controller of geminiService.ts: currentAbortController is 0
    \* for null or the identity of a controller; abortedSignals holds the
    \* controllers whose signal is aborted
    currentAbortController, abortedSignals, controllersCreated,
    \* one call of generateAnswer (geminiService.ts 111-245)
    g_pc, g_query, g_history, g_role, g_documents, g_enableWebSearch,
    g_relevantDocs, g_request, g_result, g_cancelled,
    \* which generateAnswer runs: "geminiService" (services/geminiService.ts)
    \* or "part_001" (unnamed/part_001), "none" before the call
    g_variant,
    \* the keyword filter applied on its own
    f_pc, f_query, f_role, f_documents, f_relevantDocs, f_relevantDocsV1,
    \* the document stores: st_docs is the list under the localStorage key
    \* sit_scholar_docs (storageService.ts), db_docs the IndexedDB object
    \* store 'documents' keyed by id (databaseService.ts); sr_query is the
    \* query the user searches for, sr_store the store last searched and
    \* sr_result the documents that search returned
    st_docs, db_docs, sr_query, sr_store, sr_result,
    \* the live voice component (components/LiveVoiceInterface.tsx 1-610 and
    \* its earlier text unnamed/part_002); lv_variant says which one runs
    lv_variant,
    \* React state: status, isMuted, errorMessage, retryCount
    lv_status, lv_isMuted, lv_errorMessage, lv_retryCount,
    \* refs: 0 is null, otherwise the call of startSession that made the object
    lv_isMountedRef, lv_inputContextRef, lv_outputContextRef,
    lv_mediaStreamRef, lv_sessionRef,
    \* the objects the calls of startSession made: audio contexts, microphone
    \* tracks, streaming sessions, and the capture processors
    lv_inputContexts, lv_outputContexts, lv_tracks, lv_sessions,
    lv_processors,
    \* the calls of startSession (position, and the status and isMuted their
    \* closure captured) and the calls of cleanup in flight
    lv_startSession, lv_closure, lv_cleanup,
    \* playback: audioQueueRef, isPlayingRef, currentSourceRef, the buffer
    \* sources made so far, the number of frames that arrived and the frames
    \* in the order their playback started
    lv_audioQueueRef, lv_isPlayingRef, lv_currentSourceRef, lv_sources,
    lv_frames, lv_started,
    \* history: the handler that ran last, the number of frames handed to
    \* sendRealtimeInput, whether handleClose or the unmount began
    lv_last, lv_sent, lv_closeBegun,
    \* the earlier component (LiveVoiceInterface.tsx 612-876): FileReader
    \* reads in flight, callbacks waiting on sessionPromise
    lv_reads, lv_thens,
    \* the page scraper (services/storageService.ts 195-592): the clock
    \* Date.now(), the map pageCache, currentProxyIndex and the calls of
    \* scrapePage
    sc_now, pageCache, currentProxyIndex, sc_calls,
    \* generateAnswer of services/databaseService.ts (431-548), which scrapes
    \* before it generates: its position, the pages searchSITWebsite scrapes,
    \* the search result and what it returned
    gs_pc, gs_pages, gs_scrapedData, gs_result,
    \* the App component (unnamed/part_006, unnamed/part_007): which of the
    \* two it is, the state `threads`, the threads kept in localStorage,
    \* currentThreadId (0 for null), isLoading, canStop, and the calls of
    \* handleSendMessage
    app_variant, threads, storedThreads, currentThreadId, isLoading, canStop,
    hs_calls

rb_vars == <<rb_pc, rb_maxRetries, rb_initialBackoff, rb_attempt, rb_lastError,
             rb_result, rb_thrown, rb_calls, rb_outcomes, rb_delays>>
wr_vars == <<wr_pc, wr_maxRetries, wr_delayMs, wr_attempt, wr_lastError,
             wr_result, wr_thrown, wr_calls, wr_outcomes, wr_delays>>
abort_vars == <<currentAbortController, abortedSignals, controllersCreated>>
gen_vars == <<g_pc, g_query, g_history, g_role, g_documents, g_enableWebSearch,
              g_relevantDocs, g_request, g_result, g_cancelled, g_variant>>
flt_vars == <<f_pc, f_query, f_role, f_documents, f_relevantDocs,
              f_relevantDocsV1>>
store_vars == <<st_docs, db_docs, sr_query, sr_store, sr_result>>
live_state == <<lv_variant, lv_isMuted, lv_errorMessage, lv_retryCount,
                lv_isMountedRef>>
live_refs == <<lv_inputContextRef, lv_outputContextRef, lv_mediaStreamRef,
               lv_sessionRef>>
live_objects == <<lv_inputContexts, lv_outputContexts, lv_tracks, lv_sessions,
                  lv_processors>>
live_calls == <<lv_startSession, lv_closure, lv_cleanup>>
playback_vars == <<lv_status, lv_audioQueueRef, lv_isPlayingRef,
                   lv_currentSourceRef, lv_sources, lv_started>>
live_history == <<lv_frames, lv_last, lv_sent, lv_closeBegun>>
live_earlier == <<lv_reads, lv_thens>>
live_vars == <<live_state, live_refs, live_objects, live_calls, playback_vars,
               live_history, live_earlier>>
sc_vars == <<sc_now, pageCache, currentProxyIndex, sc_calls>>
gs_vars == <<gs_pc, gs_pages, gs_scrapedData, gs_result>>
app_vars == <<app_variant, threads, storedThreads, currentThreadId, isLoading,
              canStop, hs_calls>>
ext_vars == <<sc_vars, gs_vars, app_vars>>
vars == <<rb_vars, wr_vars, aiInstance, apiKey, abort_vars, gen_vars, flt_vars,
          store_vars, live_vars, ext_vars>>

(***************************************************************************)
(* Bounds of the model.                                                     *)
(***************************************************************************)
MaxRetriesBound == 3
\* calls of startSession per mounted component, audio frames per conversation
MaxAttempts == 4
MaxFrames == 3
\* presses of Retry that handleRetry may accept, presses offered while sessions
\* open and close, frames handed to the session
MaxRetryPresses == 4
MaxLiveRetries == 2
MaxSends == 2
\* pages, calls of scrapePage, and steps of the clock
MaxUrls == 2
MaxScrapes == 2
MaxTicks == 3
\* calls of handleSendMessage, threads of the App component
MaxMessages == 2
MaxThreads == 2

(***************************************************************************)
(* JavaScript string primitives.                                            *)
(***************************************************************************)
LowerOf ==
    "A" :> "a" @@ "B" :> "b" @@ "C" :> "c" @@ "D" :> "d" @@ "E" :> "e" @@
    "F" :> "f" @@ "G" :> "g" @@ "H" :> "h" @@ "I" :> "i" @@ "J" :> "j" @@
    "K" :> "k" @@ "L" :> "l" @@ "M" :> "m" @@ "N" :> "n" @@ "O" :> "o" @@
    "P" :> "p" @@ "Q" :> "q" @@ "R" :> "r" @@ "S" :> "s" @@ "T" :> "t" @@
    "U" :> "u" @@ "V" :> "v" @@ "W" :> "w" @@ "X" :> "x" @@ "Y" :> "y" @@
    "Z" :> "z"

\* String.prototype.toLowerCase
toLowerCase(s) ==
    [i \in DOMAIN s |-> IF s[i] \in DOMAIN LowerOf THEN LowerOf[s[i]] ELSE s[i]]

\* String.prototype.includes
includes(s, k) ==
    \E i \in 0..(Len(s) - Len(k)) : SubSeq(s, i + 1, i + Len(k)) = k

\* String.prototype.split(sep) for a one-character separator
RECURSIVE splitFrom(_, _, _, _)
splitFrom(s, sep, i, cur) ==
    IF i > Len(s) THEN <<cur>>
    ELSE IF s[i] = sep THEN <<cur>> \o splitFrom(s, sep, i + 1, <<>>)
    ELSE splitFrom(s, sep, i + 1, Append(cur, s[i]))

split(s, sep) == splitFrom(s, sep, 1, <<>>)

Max(a, b) == IF a >= b THEN a ELSE b

RECURSIVE Pow2(_)
Pow2(n) == IF n = 0 THEN 1 ELSE 2 * Pow2(n - 1)

(***************************************************************************)
(* Errors the API operation can reject with.  status = 0 stands for an      *)
(* error object without a status property.  origin tells the object thrown  *)
(* by the operation from one created by the wrapper.                        *)
(***************************************************************************)
NoError == [name |-> "none", status |-> 0, message |-> <<>>, origin |-> "none"]

ErrStatus429 ==
    [name |-> "Error", status |-> 429, message |-> <<>>, origin |-> "operation"]

ErrQuota ==
    [name |-> "Error", status |-> 0, origin |-> "operation",
     message |-> <<"Q","u","o","t","a"," ","e","x","c","e","e","d","e","d">>]

ErrServer ==
    [name |-> "Error", status |-> 503, origin |-> "operation",
     message |-> <<"U","n","a","v","a","i","l","a","b","l","e">>]

ErrNetwork ==
    [name |-> "TypeError", status |-> 0, origin |-> "operation",
     message |-> <<"F","a","i","l","e","d"," ","t","o"," ","f","e","t","c","h">>]

ErrBadRequest ==
    [name |-> "Error", status |-> 400, origin |-> "operation",
     message |-> <<"B","a","d"," ","r","e","q","u","e","s","t">>]

ErrAuth ==
    [name |-> "Error", status |-> 400, origin |-> "operation",
     message |-> <<"A","P","I"," ","k","e","y"," ","n","o","t"," ","v","a","l",
                   "i","d">>]

ErrUnauthorized ==
    [name |-> "Error", status |-> 401, origin |-> "operation",
     message |-> <<"U","n","a","u","t","h","o","r","i","z","e","d">>]

ErrAbort ==
    [name |-> "AbortError", status |-> 0, origin |-> "operation",
     message |-> <<"A","b","o","r","t","e","d">>]

OperationErrors ==
    {ErrStatus429, ErrQuota, ErrServer, ErrNetwork, ErrBadRequest, ErrAuth,
     ErrUnauthorized, ErrAbort}

\* Values the operation can resolve with: the API response, its text and the
\* grounding chunks of candidates[0].groundingMetadata.
NoResponse == [none |-> TRUE]

RespAnswer == [text |-> "ok", groundingChunks |-> <<>>]

RespEmpty == [text |-> "", groundingChunks |-> <<>>]

RespGrounded ==
    [text |-> "grounded answer",
     groundingChunks |->
       << [web |-> TRUE, title |-> <<>>,
           uri |-> <<"h","t","t","p","s",":","/","/","s","i","t",".","a","c",
                     ".","i","n">>],
          [web |-> FALSE, title |-> <<>>, uri |-> <<>>] >>]

Responses == {RespAnswer, RespEmpty, RespGrounded}

(***************************************************************************)
(* retryWithBackoff: error classification (part_001 lines 46-59).           *)
(***************************************************************************)
isRateLimited(error) ==
    \/ error.status = 429
    \/ includes(error.message, <<"4","2","9">>)
    \/ includes(toLowerCase(error.message),
                <<"r","a","t","e"," ","l","i","m","i","t">>)
    \/ includes(toLowerCase(error.message), <<"q","u","o","t","a">>)

isServerError(error) ==
    \/ error.status >= 500
    \/ includes(error.message, <<"5","0","0">>)
    \/ includes(toLowerCase(error.message),
                <<"i","n","t","e","r","n","a","l">>)

isNetworkError(error) ==
    \/ includes(toLowerCase(error.message), <<"n","e","t","w","o","r","k">>)
    \/ includes(toLowerCase(error.message), <<"f","e","t","c","h">>)
    \/ includes(toLowerCase(error.message), <<"t","i","m","e","o","u","t">>)

isRetryable(error) ==
    isRateLimited(error) \/ isServerError(error) \/ isNetworkError(error)

MAX_RETRIES == 3
INITIAL_BACKOFF_MS == 1000
RATE_LIMIT_FLOOR_MS == 5000
JITTER_RANGE_MS == 500

\* Math.random() * 500 lies in [0, 500)
Jitters == {0, JITTER_RANGE_MS - 1}

\* initialBackoff * Math.pow(2, attempt), the backoff without its jitter
backoffBase(initialBackoff, attempt) == initialBackoff * Pow2(attempt)

waitTime_NoFloor(error, backoffMs) == backoffMs

\* waitTime = isRateLimited ? Math.max(backoffMs, 5000) : backoffMs
waitTime(error, backoffMs) ==
    IF isRateLimited(error) THEN Max(backoffMs, RATE_LIMIT_FLOOR_MS) ELSE backoffMs

\* new Error(`Rate limit exceeded. Please wait a moment before trying again.`)
RateLimitExceededError ==
    [name |-> "Error", status |-> 0, origin |-> "wrapper",
     message |->
       <<"R","a","t","e"," ","l","i","m","i","t"," ","e","x","c","e","e","d",
         "e","d","."," ","P","l","e","a","s","e"," ","w","a","i","t"," ","a",
         " ","m","o","m","e","n","t"," ","b","e","f","o","r","e"," ","t","r",
         "y","i","n","g"," ","a","g","a","i","n",".">>]

rbGivesUp_OffByOne(error, attempt, maxRetries) ==
    ~isRetryable(error) \/ attempt + 1 >= maxRetries

\* the catch block's decision to give up: !isRetryable || attempt === maxRetries
rbGivesUp(error, attempt, maxRetries) ==
    ~isRetryable(error) \/ attempt = maxRetries

rbThrows_AlwaysRewrites(error) == RateLimitExceededError

rbThrows_NeverRewrites(error) == error

\* what the catch block throws when it gives up
rbThrows(error) ==
    IF isRateLimited(error) THEN RateLimitExceededError ELSE error

RbIdle ==
    /\ rb_pc = "idle" /\ rb_maxRetries = 0 /\ rb_initialBackoff = 0
    /\ rb_attempt = 0 /\ rb_lastError = NoError /\ rb_result = NoResponse
    /\ rb_thrown = NoError /\ rb_calls = 0 /\ rb_outcomes = <<>>
    /\ rb_delays = <<>>

\* retryWithBackoff(operation, maxRetries, initialBackoff) entered
RbEntered(maxRetries, initialBackoff) ==
    /\ rb_pc = "call" /\ rb_maxRetries = maxRetries
    /\ rb_initialBackoff = initialBackoff
    /\ rb_attempt = 0 /\ rb_lastError = NoError /\ rb_result = NoResponse
    /\ rb_thrown = NoError /\ rb_calls = 0 /\ rb_outcomes = <<>>
    /\ rb_delays = <<>>

\* `await operation()`: the operation is invoked and the wrapper suspends
RbInvokeStep ==
    /\ rb_pc = "call"
    /\ rb_pc' = "pending"
    /\ rb_calls' = rb_calls + 1
    /\ UNCHANGED <<rb_maxRetries, rb_initialBackoff, rb_attempt, rb_lastError,
                   rb_result, rb_thrown, rb_outcomes, rb_delays, aiInstance>>

\* the operation resolves: `return await operation()`
RbResolveStep(value) ==
    /\ rb_pc = "pending"
    /\ rb_pc' = "returned"
    /\ rb_result' = value
    /\ rb_outcomes' = Append(rb_outcomes, [ok |-> TRUE, value |-> value,
                                            error |-> NoError])
    /\ UNCHANGED <<rb_maxRetries, rb_initialBackoff, rb_attempt, rb_lastError,
                   rb_thrown, rb_calls, rb_delays, aiInstance>>

\* the operation rejects: the catch block up to the throw or the setTimeout
RbRejectStep(error, jitter) ==
    /\ rb_pc = "pending"
    /\ rb_lastError' = error
    /\ rb_outcomes' = Append(rb_outcomes, [ok |-> FALSE, value |-> NoResponse,
                                            error |-> error])
    /\ IF rbGivesUp(error, rb_attempt, rb_maxRetries)
       THEN /\ rb_pc' = "threw"
            /\ rb_thrown' = rbThrows(error)
            /\ UNCHANGED rb_delays
       ELSE LET base == backoffBase(rb_initialBackoff, rb_attempt)
                backoffMs == base + jitter
            IN  /\ rb_pc' = "sleep"
                /\ rb_delays' = Append(rb_delays,
                       [attempt |-> rb_attempt, base |-> base,
                        jitter |-> jitter,
                        waitTime |-> waitTime(error, backoffMs),
                        rateLimited |-> isRateLimited(error)])
                /\ UNCHANGED rb_thrown
    /\ UNCHANGED <<rb_maxRetries, rb_initialBackoff, rb_attempt, rb_result,
                   rb_calls, aiInstance>>

\* the timer fires: resetAIClient() on a network error, then attempt++ and
\* the loop test attempt <= maxRetries (line 84 throws lastError after the loop)
RbWakeStep ==
    /\ rb_pc = "sleep"
    /\ aiInstance' = IF isNetworkError(rb_lastError) THEN 0 ELSE aiInstance
    /\ rb_attempt' = rb_attempt + 1
    /\ IF rb_attempt + 1 <= rb_maxRetries
       THEN rb_pc' = "call" /\ UNCHANGED rb_thrown
       ELSE rb_pc' = "threw" /\ rb_thrown' = rb_lastError
    /\ UNCHANGED <<rb_maxRetries, rb_initialBackoff, rb_lastError, rb_result,
                   rb_calls, rb_outcomes, rb_delays>>

(***************************************************************************)
(* withRetry, the simplified wrapper of services/geminiService.ts.          *)
(***************************************************************************)
WR_DEFAULT_MAX_RETRIES == 2
WR_DEFAULT_DELAY_MS == 1000

\* error.name === 'AbortError'
isAbortError(error) == error.name = "AbortError"

\* error.message?.includes('API key') || error.status === 401
isAuthError(error) ==
    \/ includes(error.message, <<"A","P","I"," ","k","e","y">>)
    \/ error.status = 401

\* a catch block that also rethrows what retryWithBackoff would not retry
wrRethrowsAtOnce_NonRetryable(error) ==
    isAbortError(error) \/ isAuthError(error) \/ ~isRetryable(error)

\* the catch block rethrows at once (lines 58 and 61)
wrRethrowsAtOnce(error) == isAbortError(error) \/ isAuthError(error)

\* the delay of setTimeout(r, delayMs * (attempt + 1))
wrDelay(delayMs, attempt) == delayMs * (attempt + 1)

WrIdle ==
    /\ wr_pc = "idle" /\ wr_maxRetries = 0 /\ wr_delayMs = 0
    /\ wr_attempt = 0 /\ wr_lastError = NoError /\ wr_result = NoResponse
    /\ wr_thrown = NoError /\ wr_calls = 0 /\ wr_outcomes = <<>>
    /\ wr_delays = <<>>

\* `await fn()`: the operation is invoked and the wrapper suspends
WrInvokeStep ==
    /\ wr_pc = "call"
    /\ wr_pc' = "pending"
    /\ wr_calls' = wr_calls + 1
    /\ UNCHANGED <<wr_maxRetries, wr_delayMs, wr_attempt, wr_lastError,
                   wr_result, wr_thrown, wr_outcomes, wr_delays>>

\* fn resolves: `return await fn()`
WrResolveStep(value) ==
    /\ wr_pc = "pending"
    /\ wr_pc' = "returned"
    /\ wr_result' = value
    /\ wr_outcomes' = Append(wr_outcomes, [ok |-> TRUE, value |-> value,
                                            error |-> NoError])
    /\ UNCHANGED <<wr_maxRetries, wr_delayMs, wr_attempt, wr_lastError,
                   wr_thrown, wr_calls, wr_delays>>

\* fn rejects: the catch block, and the end of the loop when no delay follows
WrRejectStep(error) ==
    /\ wr_pc = "pending"
    /\ wr_lastError' = error
    /\ wr_outcomes' = Append(wr_outcomes, [ok |-> FALSE, value |-> NoResponse,
                                            error |-> error])
    /\ IF wrRethrowsAtOnce(error)
       THEN /\ wr_pc' = "threw"
            /\ wr_thrown' = error
            /\ UNCHANGED <<wr_attempt, wr_delays>>
       ELSE IF wr_attempt < wr_maxRetries
       THEN /\ wr_pc' = "sleep"
            /\ wr_delays' = Append(wr_delays, wrDelay(wr_delayMs, wr_attempt))
            /\ UNCHANGED <<wr_attempt, wr_thrown>>
       ELSE /\ wr_attempt' = wr_attempt + 1
            /\ wr_pc' = "threw"
            /\ wr_thrown' = error
            /\ UNCHANGED wr_delays
    /\ UNCHANGED <<wr_maxRetries, wr_delayMs, wr_result, wr_calls>>

\* the timer fires: attempt++ and the loop test attempt <= maxRetries
WrWakeStep ==
    /\ wr_pc = "sleep"
    /\ wr_attempt' = wr_attempt + 1
    /\ IF wr_attempt + 1 <= wr_maxRetries
       THEN wr_pc' = "call" /\ UNCHANGED wr_thrown
       ELSE wr_pc' = "threw" /\ wr_thrown' = wr_lastError
    /\ UNCHANGED <<wr_maxRetries, wr_delayMs, wr_lastError, wr_result,
                   wr_calls, wr_outcomes, wr_delays>>

(***************************************************************************)
(* SpecRetry: one call of a retry wrapper on an operation whose outcome at  *)
(* each invocation is chosen by the environment.                            *)
(***************************************************************************)
Backoffs == {INITIAL_BACKOFF_MS, 3 * INITIAL_BACKOFF_MS}

\* the filter on its own is not running
flt_idle ==
    /\ f_pc = "idle" /\ f_query = <<>> /\ f_role = "PUBLIC"
    /\ f_documents = <<>> /\ f_relevantDocs = <<>> /\ f_relevantDocsV1 = <<>>

\* the calls of startSession, the audio frames of a conversation
Attempts == 1..MaxAttempts
Frames == 1..MaxFrames

\* the scraper before its first call
sc_idle ==
    /\ sc_now = 0 /\ pageCache = <<>> /\ currentProxyIndex = 0
    /\ sc_calls = <<>>
\* generateAnswer of databaseService.ts not called
gs_idle ==
    /\ gs_pc = "idle" /\ gs_pages = {} /\ gs_scrapedData = [none |-> TRUE]
    /\ gs_result = [none |-> TRUE]
\* the App component is not rendered
app_idle ==
    /\ app_variant = "none" /\ threads = <<>> /\ storedThreads = <<>>
    /\ currentThreadId = 0 /\ isLoading = FALSE /\ canStop = FALSE
    /\ hs_calls = <<>>
ext_idle == sc_idle /\ gs_idle /\ app_idle

\* the live voice component is not rendered
live_idle ==
    /\ lv_variant = "none" /\ lv_status = "none" /\ lv_isMuted = FALSE
    /\ lv_errorMessage = "" /\ lv_retryCount = 0 /\ lv_isMountedRef = FALSE
    /\ lv_inputContextRef = 0 /\ lv_outputContextRef = 0
    /\ lv_mediaStreamRef = 0 /\ lv_sessionRef = 0
    /\ lv_inputContexts = <<>> /\ lv_outputContexts = <<>>
    /\ lv_tracks = <<>> /\ lv_sessions = <<>> /\ lv_processors = {}
    /\ lv_startSession = <<>> /\ lv_closure = <<>> /\ lv_cleanup = <<>>
    /\ lv_audioQueueRef = <<>> /\ lv_isPlayingRef = FALSE
    /\ lv_currentSourceRef = 0 /\ lv_sources = <<>>
    /\ lv_frames = 0 /\ lv_started = <<>>
    /\ lv_last = "none" /\ lv_sent = 0 /\ lv_closeBegun = FALSE
    /\ lv_reads = 0 /\ lv_thens = 0

\* the stores hold nothing and no search was made
store_idle ==
    /\ st_docs = <<>> /\ db_docs = <<>>
    /\ sr_query = <<>> /\ sr_store = "none" /\ sr_result = <<>>

\* generateAnswer not called, no abort controller
GenIdle ==
    /\ currentAbortController = 0 /\ abortedSignals = {}
    /\ controllersCreated = 0
    /\ g_pc = "idle" /\ g_query = <<>> /\ g_history = <<>>
    /\ g_role = "PUBLIC" /\ g_documents = <<>> /\ g_enableWebSearch = FALSE
    /\ g_relevantDocs = <<>> /\ g_request = [none |-> TRUE]
    /\ g_result = [none |-> TRUE] /\ g_cancelled = FALSE
    /\ g_variant = "none"

\* the variables the wrappers alone leave unchanged
retry_frame == <<apiKey, abort_vars, gen_vars, flt_vars, store_vars,
                 live_vars, ext_vars>>

InitRetry ==
    /\ aiInstance = 1 /\ apiKey = TRUE
    /\ GenIdle /\ flt_idle /\ store_idle /\ live_idle /\ ext_idle
    /\ \/ /\ \E m \in 0..MaxRetriesBound, b \in Backoffs : RbEntered(m, b)
          /\ WrIdle
       \/ /\ RbIdle
          /\ wr_pc = "call"
          /\ wr_maxRetries \in 0..MaxRetriesBound
          /\ wr_delayMs = WR_DEFAULT_DELAY_MS
          /\ wr_attempt = 0 /\ wr_lastError = NoError /\ wr_result = NoResponse
          /\ wr_thrown = NoError /\ wr_calls = 0 /\ wr_outcomes = <<>>
          /\ wr_delays = <<>>

RbInvoke == RbInvokeStep /\ UNCHANGED <<wr_vars, retry_frame>>

RbResolve ==
    /\ \E v \in Responses : RbResolveStep(v)
    /\ UNCHANGED <<wr_vars, retry_frame>>

RbReject ==
    /\ \E e \in OperationErrors, j \in Jitters : RbRejectStep(e, j)
    /\ UNCHANGED <<wr_vars, retry_frame>>

RbWake == RbWakeStep /\ UNCHANGED <<wr_vars, retry_frame>>

WrInvoke == WrInvokeStep /\ UNCHANGED <<rb_vars, aiInstance, retry_frame>>

WrResolve ==
    /\ \E v \in Responses : WrResolveStep(v)
    /\ UNCHANGED <<rb_vars, aiInstance, retry_frame>>

WrReject ==
    /\ \E e \in OperationErrors : WrRejectStep(e)
    /\ UNCHANGED <<rb_vars, aiInstance, retry_frame>>

WrWake == WrWakeStep /\ UNCHANGED <<rb_vars, aiInstance, retry_frame>>

NextRetry ==
    \/ RbInvoke \/ RbResolve \/ RbReject \/ RbWake
    \/ WrInvoke \/ WrResolve \/ WrReject \/ WrWake

SpecRetry == InitRetry /\ [][NextRetry]_vars

(***************************************************************************)
(* The keyword filter of generateAnswer.  A document is a record            *)
(* [id, title, content, category, isRestricted].                            *)
(***************************************************************************)
Roles == {"PUBLIC", "AUTHORIZED", "ADMIN"}

keywordsOf_KeepsShort(query) ==
    LET long(k) == Len(k) >= 2
    IN  SelectSeq(split(toLowerCase(query), " "), long)

\* query.toLowerCase().split(' ').filter(k => k.length > 2)
keywordsOf(query) ==
    LET long(k) == Len(k) > 2
    IN  SelectSeq(split(toLowerCase(query), " "), long)

isRelevant_IgnoresRole(doc, query, role) ==
    LET keywords == keywordsOf(query)
    IN  \E i \in DOMAIN keywords :
           \/ includes(toLowerCase(doc.content), keywords[i])
           \/ includes(toLowerCase(doc.title), keywords[i])

\* the filter callback of geminiService.ts lines 127-134
isRelevant(doc, query, role) ==
    IF role = "PUBLIC" /\ doc.isRestricted THEN FALSE
    ELSE LET keywords == keywordsOf(query)
         IN  \E i \in DOMAIN keywords :
                \/ includes(toLowerCase(doc.content), keywords[i])
                \/ includes(toLowerCase(doc.title), keywords[i])

relevantDocs(query, role, documents) ==
    LET keep(doc) == isRelevant(doc, query, role)
    IN  SelectSeq(documents, keep)

\* the filter callback of unnamed/part_001 lines 132-137 (the same in
\* databaseService.ts 441-446): the length test is made inside some()
isRelevantV1(doc, query, role) ==
    IF role = "PUBLIC" /\ doc.isRestricted THEN FALSE
    ELSE LET keywords == split(toLowerCase(query), " ")
         IN  \E i \in DOMAIN keywords :
                /\ Len(keywords[i]) > 2
                /\ \/ includes(toLowerCase(doc.content), keywords[i])
                   \/ includes(toLowerCase(doc.title), keywords[i])

relevantDocsV1(query, role, documents) ==
    LET keep(doc) == isRelevantV1(doc, query, role)
    IN  SelectSeq(documents, keep)

(***************************************************************************)
(* generateAnswer of services/geminiService.ts.                             *)
(***************************************************************************)
HISTORY_LIMIT == 10
SNIPPET_LENGTH == 100

RECURSIVE joinWith(_, _)
\* Array.prototype.join(sep) over strings
joinWith(parts, sep) ==
    IF parts = <<>> THEN <<>>
    ELSE IF Len(parts) = 1 THEN parts[1]
    ELSE parts[1] \o sep \o joinWith(Tail(parts), sep)

\* Array.prototype.slice(-n)
sliceLast(seq, n) ==
    IF Len(seq) <= n THEN seq ELSE SubSeq(seq, Len(seq) - n + 1, Len(seq))

\* String.prototype.substring(0, n)
substring0(str, n) == IF Len(str) <= n THEN str ELSE SubSeq(str, 1, n)

\* internalContext (lines 137-140)
internalContext(docs) ==
    IF Len(docs) > 0
    THEN <<"\n","\n","I","N","T","E","R","N","A","L"," ","R","E","C","O","R",
           "D","S",":","\n">>
         \o joinWith([i \in DOMAIN docs |->
                        <<"[">> \o docs[i].title \o <<"]","\n">>
                        \o docs[i].content],
                     <<"\n","\n">>)
    ELSE <<>>

\* contents (lines 152-161): the limited history, then the query as user turn
contentsOf(query, history) ==
    LET limitedHistory == sliceLast(history, HISTORY_LIMIT)
    IN  [i \in DOMAIN limitedHistory |->
            [role |-> IF limitedHistory[i].role = "user" THEN "user" ELSE "model",
             text |-> limitedHistory[i].content]]
        \o <<[role |-> "user", text |-> query]>>

\* the argument of ai.models.generateContent (lines 165-172)
requestOf(ai, query, history, role, docs, enableWebSearch) ==
    [ai |-> ai,
     contents |-> contentsOf(query, history),
     role |-> role,
     internalContext |-> internalContext(docs),
     googleSearch |-> enableWebSearch]

\* new Error("GEMINI_API_KEY is not configured. Please add it to your .env file.")
ConfigurationError ==
    [name |-> "Error", status |-> 0, origin |-> "getAIClient",
     message |->
       <<"G","E","M","I","N","I","_","A","P","I","_","K","E","Y"," ","i","s",
         " ","n","o","t"," ","c","o","n","f","i","g","u","r","e","d","."," ",
         "P","l","e","a","s","e"," ","a","d","d"," ","i","t"," ","t","o"," ",
         "y","o","u","r"," ",".","e","n","v"," ","f","i","l","e",".">>]

RequestWasCancelled ==
    <<"R","e","q","u","e","s","t"," ","w","a","s"," ","c","a","n","c","e",
      "l","l","e","d">>

\* new Error('Request was cancelled')
CancelledError ==
    [name |-> "Error", status |-> 0, origin |-> "generateAnswer",
     message |-> RequestWasCancelled]

\* the neutral result of lines 219-225
CancelledResult ==
    [text |-> "Request was cancelled.", citations |-> <<>>,
     needsWebSearchApproval |-> FALSE]

\* errorMessage of the catch block (lines 227-235)
errorMessageOf(error) ==
    IF includes(error.message, <<"A","P","I"," ","k","e","y">>)
    THEN "API key error. Please check your configuration."
    ELSE IF \/ includes(error.message, <<"4","2","9">>)
            \/ includes(error.message, <<"r","a","t","e">>)
    THEN "Too many requests. Please wait a moment and try again."
    ELSE IF \/ includes(error.message, <<"n","e","t","w","o","r","k">>)
            \/ includes(error.message, <<"f","e","t","c","h">>)
    THEN "Network error. Please check your internet connection."
    ELSE "An error occurred while processing your request."

catchOutcome_Rethrows(error) ==
    IF error.name = "AbortError" \/ error.message = RequestWasCancelled
    THEN [settled |-> "resolved", value |-> CancelledResult]
    ELSE IF errorMessageOf(error) = "An error occurred while processing your request."
    THEN [settled |-> "rejected", value |-> [none |-> TRUE]]
    ELSE [settled |-> "resolved",
          value |-> [text |-> "[!] **Error**\n\n" \o errorMessageOf(error),
                     citations |-> <<>>,
                     needsWebSearchApproval |-> FALSE]]

\* the catch block (lines 215-241): what generateAnswer settles with when
\* `error` is thrown inside the try block.  "[!]" stands for the warning sign.
catchOutcome(error) ==
    IF error.name = "AbortError" \/ error.message = RequestWasCancelled
    THEN [settled |-> "resolved", value |-> CancelledResult]
    ELSE [settled |-> "resolved",
          value |-> [text |-> "[!] **Error**\n\n" \o errorMessageOf(error),
                     citations |-> <<>>,
                     needsWebSearchApproval |-> FALSE]]

\* citations (lines 183-207): grounding chunks first, then one per document
citationsOf(response, docs) ==
    LET isWeb(chunk) == chunk.web
        webChunks == SelectSeq(response.groundingChunks, isWeb)
    IN  [i \in DOMAIN webChunks |->
            [title |-> IF webChunks[i].title # <<>> THEN webChunks[i].title
                       ELSE <<"W","e","b"," ","S","o","u","r","c","e">>,
             url |-> webChunks[i].uri,
             sourceType |-> "EXTERNAL_WEB",
             snippet |-> webChunks[i].title]]
        \o [i \in DOMAIN docs |->
            [title |-> docs[i].title,
             url |-> <<>>,
             sourceType |-> "INTERNAL",
             snippet |-> substring0(docs[i].content, SNIPPET_LENGTH)
                           \o <<".",".",".">>]]

\* the abort test of line 176: currentAbortController?.signal.aborted
abortObserved(controller, aborted) ==
    controller # 0 /\ controller \in aborted

\* lines 175-213: what generateAnswer settles with once withRetry has returned
returnOutcome(response, docs, controller, aborted) ==
    IF abortObserved(controller, aborted)
    THEN catchOutcome(CancelledError)
    ELSE [settled |-> "resolved",
          value |-> [text |-> IF response.text # "" THEN response.text
                              ELSE "I couldn't generate a response. Please try again.",
                     citations |-> citationsOf(response, docs),
                     needsWebSearchApproval |-> FALSE]]

\* generateAnswer settles; the finally block clears the controller (line 243)
GenSettle(outcome) ==
    /\ g_pc' = outcome.settled
    /\ g_result' = outcome.value
    /\ currentAbortController' = 0

\* generateAnswer is called: everything up to the first suspension
GenStartStep(query, history, role, documents, enableWebSearch) ==
    /\ g_pc = "idle"
    /\ g_query' = query /\ g_history' = history /\ g_role' = role
    /\ g_documents' = documents /\ g_enableWebSearch' = enableWebSearch
    /\ g_cancelled' = FALSE
    /\ g_variant' = "geminiService"
    /\ controllersCreated' = controllersCreated + 1
    /\ UNCHANGED <<abortedSignals, apiKey>>
    /\ LET docs == relevantDocs(query, role, documents)
       IN  /\ g_relevantDocs' = docs
           /\ IF aiInstance = 0 /\ ~apiKey
              THEN \* getAIClient throws inside the try block
                   /\ GenSettle(catchOutcome(ConfigurationError))
                   /\ UNCHANGED <<aiInstance, g_request, wr_vars>>
              ELSE /\ aiInstance' = IF aiInstance = 0 THEN 1 ELSE aiInstance
                   /\ g_request' = requestOf(aiInstance', query, history, role,
                                             docs, enableWebSearch)
                   /\ currentAbortController' = controllersCreated + 1
                   /\ g_pc' = "awaiting"
                   /\ UNCHANGED g_result
                   \* withRetry(fn) with its default parameters
                   /\ wr_pc' = "call"
                   /\ wr_maxRetries' = WR_DEFAULT_MAX_RETRIES
                   /\ wr_delayMs' = WR_DEFAULT_DELAY_MS
                   /\ wr_attempt' = 0 /\ wr_lastError' = NoError
                   /\ wr_result' = NoResponse /\ wr_thrown' = NoError
                   /\ wr_calls' = 0 /\ wr_outcomes' = <<>> /\ wr_delays' = <<>>

gen_inputs == <<g_query, g_history, g_role, g_documents, g_enableWebSearch,
                g_relevantDocs, g_request, g_variant>>

\* cancelCurrentRequest (lines 35-40), called by the Stop button while the
\* call is suspended
GenCancelStep ==
    /\ g_pc = "awaiting" /\ wr_pc \in {"pending", "sleep"}
    /\ ~g_cancelled
    /\ g_cancelled' = TRUE
    /\ IF currentAbortController # 0
       THEN /\ abortedSignals' = abortedSignals \cup {currentAbortController}
            /\ currentAbortController' = 0
       ELSE UNCHANGED <<abortedSignals, currentAbortController>>
    /\ UNCHANGED <<gen_inputs, g_pc, g_result, controllersCreated, wr_vars,
                   aiInstance, apiKey>>

\* withRetry invokes fn: ai.models.generateContent is called
GenInvokeStep ==
    /\ g_pc = "awaiting"
    /\ WrInvokeStep
    /\ UNCHANGED <<gen_vars, abort_vars, aiInstance, apiKey>>

\* the API call resolves: withRetry returns and generateAnswer runs on
GenApiResolveStep(response) ==
    /\ g_pc = "awaiting"
    /\ WrResolveStep(response)
    /\ GenSettle(returnOutcome(response, g_relevantDocs,
                               currentAbortController, abortedSignals))
    /\ UNCHANGED <<gen_inputs, g_cancelled, abortedSignals, controllersCreated,
                   aiInstance, apiKey>>

\* the API call rejects: withRetry retries, or throws into the catch block
GenApiRejectStep(error) ==
    /\ g_pc = "awaiting"
    /\ WrRejectStep(error)
    /\ IF wr_pc' = "threw"
       THEN GenSettle(catchOutcome(wr_thrown'))
       ELSE UNCHANGED <<g_pc, g_result, currentAbortController>>
    /\ UNCHANGED <<gen_inputs, g_cancelled, abortedSignals, controllersCreated,
                   aiInstance, apiKey>>

\* the retry timer of withRetry fires
GenWakeStep ==
    /\ g_pc = "awaiting"
    /\ WrWakeStep
    /\ IF wr_pc' = "threw"
       THEN GenSettle(catchOutcome(wr_thrown'))
       ELSE UNCHANGED <<g_pc, g_result, currentAbortController>>
    /\ UNCHANGED <<gen_inputs, g_cancelled, abortedSignals, controllersCreated,
                   aiInstance, apiKey>>

(***************************************************************************)
(* generateAnswer of unnamed/part_001: no abort controller, the API call    *)
(* goes through retryWithBackoff with its default parameters.  The text of  *)
(* the result is a sequence of characters because the code inspects it.     *)
(* "[hourglass]", "[key]", "[globe]", "[wrench]" and "[!]" stand for the    *)
(* pictographs of the source.                                               *)
(***************************************************************************)
HISTORY_LIMIT_V1 == 20

\* new Error("GEMINI_API_KEY is not configured") of getAIClient
ConfigurationErrorV1 ==
    [name |-> "Error", status |-> 0, origin |-> "getAIClient",
     message |->
       <<"G","E","M","I","N","I","_","A","P","I","_","K","E","Y"," ","i",
         "s"," ","n","o","t"," ","c","o","n","f","i","g","u","r","e","d">>]

\* contextText (line 139) or its placeholder (line 147)
contextTextV1(docs) ==
    LET contextText ==
          joinWith([i \in DOMAIN docs |->
                      <<"[","I","n","t","e","r","n","a","l"," ","D","o","c",
                        "u","m","e","n","t",":"," ">> \o docs[i].title
                      \o <<" ","(">> \o docs[i].category
                      \o <<")","]"," ","\n">> \o docs[i].content],
                   <<"\n","\n">>)
    IN  IF contextText # <<>> THEN contextText
        ELSE
          <<"N","o"," ","r","e","l","e","v","a","n","t"," ","i","n","t","e",
            "r","n","a","l"," ","d","o","c","u","m","e","n","t","s"," ","f",
            "o","u","n","d"," ","f","o","r"," ","t","h","i","s"," ","s","p",
            "e","c","i","f","i","c"," ","q","u","e","r","y",".">>

\* contents (lines 159-170): the limited history, then the query as user turn
contentsOfV1(query, history) ==
    LET limitedHistory == sliceLast(history, HISTORY_LIMIT_V1)
    IN  [i \in DOMAIN limitedHistory |->
            [role |-> IF limitedHistory[i].role = "user" THEN "user" ELSE "model",
             text |-> limitedHistory[i].content]]
        \o <<[role |-> "user", text |-> query]>>

\* the argument of ai.models.generateContent (lines 162-175); `ai` is the
\* handle obtained before retryWithBackoff is entered
requestOfV1(ai, query, history, role, docs, enableWebSearch) ==
    [ai |-> ai,
     contents |-> contentsOfV1(query, history),
     role |-> role,
     internalContext |-> contextTextV1(docs),
     googleSearch |-> enableWebSearch]

RateLimitTextV1 ==
    <<"[","h","o","u","r","g","l","a","s","s","]"," ","*","*","R","a","t",
      "e"," ","L","i","m","i","t"," ","R","e","a","c","h","e","d","*","*",
      ":"," ","T","h","e"," ","A","P","I"," ","i","s"," ","c","u","r","r",
      "e","n","t","l","y"," ","b","u","s","y","."," ","P","l","e","a","s",
      "e"," ","w","a","i","t"," ","a"," ","m","o","m","e","n","t"," ","a",
      "n","d"," ","t","r","y"," ","a","g","a","i","n",".">>

ConfigurationTextV1 ==
    <<"[","k","e","y","]"," ","*","*","C","o","n","f","i","g","u","r","a",
      "t","i","o","n"," ","E","r","r","o","r","*","*",":"," ","T","h","e",
      " ","A","P","I"," ","k","e","y"," ","i","s"," ","n","o","t"," ","p",
      "r","o","p","e","r","l","y"," ","c","o","n","f","i","g","u","r","e",
      "d",".">>

NetworkTextV1 ==
    <<"[","g","l","o","b","e","]"," ","*","*","N","e","t","w","o","r","k",
      " ","E","r","r","o","r","*","*",":"," ","U","n","a","b","l","e"," ",
      "t","o"," ","c","o","n","n","e","c","t"," ","t","o"," ","t","h","e",
      " ","s","e","r","v","e","r","."," ","P","l","e","a","s","e"," ","c",
      "h","e","c","k"," ","y","o","u","r"," ","i","n","t","e","r","n","e",
      "t"," ","c","o","n","n","e","c","t","i","o","n",".">>

ServerTextV1 ==
    <<"[","w","r","e","n","c","h","]"," ","*","*","S","e","r","v","e","r",
      " ","E","r","r","o","r","*","*",":"," ","T","h","e"," ","G","e","m",
      "i","n","i"," ","s","e","r","v","i","c","e"," ","i","s"," ","t","e",
      "m","p","o","r","a","r","i","l","y"," ","u","n","a","v","a","i","l",
      "a","b","l","e","."," ","P","l","e","a","s","e"," ","t","r","y"," ",
      "a","g","a","i","n"," ","l","a","t","e","r",".">>

GenericTextV1(message) ==
    <<"[","!","]"," ","*","*","E","r","r","o","r","*","*",":"," ">>
    \o (IF message # <<>> THEN message
        ELSE
          <<"U","n","k","n","o","w","n"," ","e","r","r","o","r"," ","o","c",
            "c","u","r","r","e","d">>)
    \o
    <<"\n","\n","*","I","f"," ","t","h","i","s"," ","p","e","r","s","i","s",
      "t","s",","," ","p","l","e","a","s","e"," ","r","e","f","r","e","s",
      "h"," ","t","h","e"," ","p","a","g","e"," ","a","n","d"," ","t","r",
      "y"," ","a","g","a","i","n",".","*">>

\* userMessage of the catch block (lines 222-234)
userMessageV1(error) ==
    IF \/ includes(error.message, <<"R","a","t","e"," ","l","i","m","i","t">>)
       \/ includes(error.message, <<"4","2","9">>)
    THEN RateLimitTextV1
    ELSE IF includes(error.message, <<"A","P","I"," ","k","e","y">>)
    THEN ConfigurationTextV1
    ELSE IF \/ includes(error.message, <<"n","e","t","w","o","r","k">>)
            \/ includes(error.message, <<"f","e","t","c","h">>)
    THEN NetworkTextV1
    ELSE IF error.status >= 500
    THEN ServerTextV1
    ELSE GenericTextV1(error.message)

\* the catch block (lines 218-241)
catchOutcomeV1(error) ==
    [settled |-> "resolved",
     value |-> [text |-> userMessageV1(error),
                citations |-> <<>>,
                needsWebSearchApproval |-> FALSE]]

RECURSIVE uniqueUpTo(_, _)
\* citations.filter((v, i, a) => a.findIndex(t => t.url === v.url &&
\* t.title === v.title) === i), over the first n citations
uniqueUpTo(citations, n) ==
    IF n = 0 THEN <<>>
    ELSE LET rest == uniqueUpTo(citations, n - 1)
         IN  IF \E j \in 1..(n - 1) :
                   /\ citations[j].url = citations[n].url
                   /\ citations[j].title = citations[n].title
             THEN rest
             ELSE Append(rest, citations[n])

\* citations (lines 179-208); an absent url or snippet is <<>>
citationsOfV1(response, docs) ==
    LET isWeb(chunk) == chunk.web
        webChunks == SelectSeq(response.groundingChunks, isWeb)
        citations ==
          [i \in DOMAIN webChunks |->
              [title |-> IF webChunks[i].title # <<>> THEN webChunks[i].title
                         ELSE <<"W","e","b"," ","R","e","s","u","l","t">>,
               url |-> webChunks[i].uri,
               sourceType |-> "EXTERNAL_WEB",
               snippet |-> <<>>]]
          \o [i \in DOMAIN docs |->
              [title |-> docs[i].title,
               url |-> <<>>,
               sourceType |-> "INTERNAL",
               snippet |->
                 <<"V","e","r","i","f","i","e","d"," ","I","n","t","e","r",
                   "n","a","l"," ","R","e","c","o","r","d">>]]
    IN  uniqueUpTo(citations, Len(citations))

\* lines 178-216: what generateAnswer settles with once retryWithBackoff has
\* returned
returnOutcomeV1(response, docs) ==
    [settled |-> "resolved",
     value |-> [text |-> response.text,
                citations |-> citationsOfV1(response, docs),
                needsWebSearchApproval |->
                  \/ includes(response.text,
                    <<"D","o"," ","y","o","u"," ","w","a","n","t"," ","m",
                      "e"," ","t","o"," ","s","e","a","r","c","h"," ","t",
                      "h","e"," ","w","i","d","e","r"," ","w","e","b","?">>)
                  \/ includes(response.text,
                    <<"s","e","a","r","c","h"," ","t","h","e"," ","w","i",
                      "d","e","r"," ","w","e","b">>)]]

GenSettleV1(outcome) ==
    /\ g_pc' = outcome.settled
    /\ g_result' = outcome.value

\* generateAnswer is called: everything up to the first suspension
GenV1StartStep(query, history, role, documents, enableWebSearch) ==
    /\ g_pc = "idle"
    /\ g_query' = query /\ g_history' = history /\ g_role' = role
    /\ g_documents' = documents /\ g_enableWebSearch' = enableWebSearch
    /\ g_cancelled' = FALSE
    /\ g_variant' = "part_001"
    /\ UNCHANGED <<abort_vars, apiKey>>
    /\ LET docs == relevantDocsV1(query, role, documents)
       IN  /\ g_relevantDocs' = docs
           /\ IF aiInstance = 0 /\ ~apiKey
              THEN \* getAIClient throws inside the try block
                   /\ GenSettleV1(catchOutcomeV1(ConfigurationErrorV1))
                   /\ UNCHANGED <<aiInstance, g_request, rb_vars>>
              ELSE /\ aiInstance' = IF aiInstance = 0 THEN 1 ELSE aiInstance
                   /\ g_request' = requestOfV1(aiInstance', query, history,
                                               role, docs, enableWebSearch)
                   /\ g_pc' = "awaiting"
                   /\ UNCHANGED g_result
                   \* retryWithBackoff(operation) with its default parameters
                   /\ rb_pc' = "call"
                   /\ rb_maxRetries' = MAX_RETRIES
                   /\ rb_initialBackoff' = INITIAL_BACKOFF_MS
                   /\ rb_attempt' = 0 /\ rb_lastError' = NoError
                   /\ rb_result' = NoResponse /\ rb_thrown' = NoError
                   /\ rb_calls' = 0 /\ rb_outcomes' = <<>> /\ rb_delays' = <<>>

\* retryWithBackoff invokes the operation: ai.models.generateContent is called
GenV1InvokeStep ==
    /\ g_pc = "awaiting"
    /\ RbInvokeStep
    /\ UNCHANGED <<gen_vars, abort_vars, apiKey>>

\* the API call resolves: retryWithBackoff returns and generateAnswer runs on
GenV1ApiResolveStep(response) ==
    /\ g_pc = "awaiting"
    /\ RbResolveStep(response)
    /\ GenSettleV1(returnOutcomeV1(response, g_relevantDocs))
    /\ UNCHANGED <<gen_inputs, g_cancelled, abort_vars, apiKey>>

\* the API call rejects: retryWithBackoff sleeps, or throws into the catch
\* block
GenV1ApiRejectStep(error, jitter) ==
    /\ g_pc = "awaiting"
    /\ RbRejectStep(error, jitter)
    /\ IF rb_pc' = "threw"
       THEN GenSettleV1(catchOutcomeV1(rb_thrown'))
       ELSE UNCHANGED <<g_pc, g_result>>
    /\ UNCHANGED <<gen_inputs, g_cancelled, abort_vars, apiKey>>

\* the backoff timer of retryWithBackoff fires
GenV1WakeStep ==
    /\ g_pc = "awaiting"
    /\ RbWakeStep
    /\ IF rb_pc' = "threw"
       THEN GenSettleV1(catchOutcomeV1(rb_thrown'))
       ELSE UNCHANGED <<g_pc, g_result>>
    /\ UNCHANGED <<gen_inputs, g_cancelled, abort_vars, apiKey>>

(***************************************************************************)
(* SpecGen: one call of generateAnswer, of geminiService.ts with the Stop    *)
(* button or of unnamed/part_001; the inputs and the outcome of each API     *)
(* call are chosen by the environment.                                       *)
(***************************************************************************)
DocFees ==
    [id |-> "1", isRestricted |-> FALSE,
     title |-> <<"F","e","e","s">>,
     content |-> <<"H","o","s","t","e","l"," ","f","e","e"," ","i","s"," ",
                   "9","0","0","0","0">>,
     category |-> <<"A","d","m","i","s","s","i","o","n","s">>]

DocUSN ==
    [id |-> "2", isRestricted |-> TRUE,
     title |-> <<"U","S","N"," ","l","i","s","t">>,
     content |-> <<"1","S","I","2","4","M","C","0","0","1"," ","J","o","h","n">>,
     category |-> <<"S","t","u","d","e","n","t","s">>]

DocDues ==
    [id |-> "3", isRestricted |-> TRUE,
     title |-> <<"F","e","e"," ","d","u","e","s">>,
     content |-> <<"J","o","h","n"," ","o","w","e","s"," ","5","0","0">>,
     category |-> <<"S","t","u","d","e","n","t","s">>]

GenDocumentLists ==
    {<<>>, <<DocFees, DocUSN>>, <<DocUSN, DocFees, DocDues>>}

GenQueries ==
    {<<"f","e","e","s">>, <<"J","o","h","n"," ","U","S","N">>, <<"h","i">>}

GenHistories ==
    {<<>>,
     <<[role |-> "user", content |-> <<"h","e","l","l","o">>],
       [role |-> "model", content |-> <<"H","i","!">>]>>}

\* responses to the call of unnamed/part_001
RespAnswerV1 == [text |-> <<"o","k">>, groundingChunks |-> <<>>]

RespEmptyV1 == [text |-> <<>>, groundingChunks |-> <<>>]

RespAsksV1 ==
    [text |->
       <<"N","o","t"," ","f","o","u","n","d","."," ","D","o"," ","y","o",
         "u"," ","w","a","n","t"," ","m","e"," ","t","o"," ","s","e","a",
         "r","c","h"," ","t","h","e"," ","w","i","d","e","r"," ","w","e",
         "b","?">>,
     groundingChunks |-> <<>>]

\* the same page grounded twice, and a chunk that is not a web chunk
RespGroundedV1 ==
    [text |-> <<"g","r","o","u","n","d","e","d">>,
     groundingChunks |->
       << [web |-> TRUE, title |-> <<"S","I","T">>,
           uri |-> <<"h","t","t","p","s",":","/","/","s","i","t",".","a","c",
                     ".","i","n">>],
          [web |-> FALSE, title |-> <<>>, uri |-> <<>>],
          [web |-> TRUE, title |-> <<"S","I","T">>,
           uri |-> <<"h","t","t","p","s",":","/","/","s","i","t",".","a","c",
                     ".","i","n">>] >>]

ResponsesV1 == {RespAnswerV1, RespEmptyV1, RespAsksV1, RespGroundedV1}

\* the jitter drawn in a call of generateAnswer
GenJitters == {0}

InitGen ==
    /\ aiInstance = 0 /\ apiKey \in BOOLEAN
    /\ RbIdle /\ WrIdle /\ GenIdle /\ flt_idle /\ store_idle /\ live_idle /\ ext_idle

GenStart ==
    /\ \E query \in GenQueries, history \in GenHistories, role \in Roles,
          documents \in GenDocumentLists, enableWebSearch \in BOOLEAN :
          GenStartStep(query, history, role, documents, enableWebSearch)
    /\ UNCHANGED <<rb_vars, flt_vars, store_vars, live_vars, ext_vars>>

GenCancel == GenCancelStep /\ UNCHANGED <<rb_vars, flt_vars, store_vars, live_vars, ext_vars>>

GenInvoke == GenInvokeStep /\ UNCHANGED <<rb_vars, flt_vars, store_vars, live_vars, ext_vars>>

GenApiResolve ==
    /\ \E response \in Responses : GenApiResolveStep(response)
    /\ UNCHANGED <<rb_vars, flt_vars, store_vars, live_vars, ext_vars>>

GenApiReject ==
    /\ \E error \in OperationErrors : GenApiRejectStep(error)
    /\ UNCHANGED <<rb_vars, flt_vars, store_vars, live_vars, ext_vars>>

GenWake == GenWakeStep /\ UNCHANGED <<rb_vars, flt_vars, store_vars, live_vars, ext_vars>>

GenV1Start ==
    /\ \E query \in GenQueries, history \in GenHistories, role \in Roles,
          documents \in GenDocumentLists, enableWebSearch \in BOOLEAN :
          GenV1StartStep(query, history, role, documents, enableWebSearch)
    /\ UNCHANGED <<wr_vars, flt_vars, store_vars, live_vars, ext_vars>>

GenV1Invoke == GenV1InvokeStep /\ UNCHANGED <<wr_vars, flt_vars, store_vars, live_vars, ext_vars>>

GenV1ApiResolve ==
    /\ \E response \in ResponsesV1 : GenV1ApiResolveStep(response)
    /\ UNCHANGED <<wr_vars, flt_vars, store_vars, live_vars, ext_vars>>

GenV1ApiReject ==
    /\ \E error \in OperationErrors, jitter \in GenJitters :
          GenV1ApiRejectStep(error, jitter)
    /\ UNCHANGED <<wr_vars, flt_vars, store_vars, live_vars, ext_vars>>

GenV1Wake == GenV1WakeStep /\ UNCHANGED <<wr_vars, flt_vars, store_vars, live_vars, ext_vars>>

NextGen ==
    \/ GenStart \/ GenCancel \/ GenInvoke
    \/ GenApiResolve \/ GenApiReject \/ GenWake
    \/ GenV1Start \/ GenV1Invoke
    \/ GenV1ApiResolve \/ GenV1ApiReject \/ GenV1Wake

SpecGen == InitGen /\ [][NextGen]_vars

(***************************************************************************)
(* SpecFilter: the keyword filter applied to inputs chosen by the            *)
(* environment.                                                              *)
(***************************************************************************)
MaxQueryLen == 4
MaxDocuments == 2

QueryAlphabet == {"a", "B", " "}

RECURSIVE StringsUpTo(_, _)
StringsUpTo(alphabet, n) ==
    IF n = 0 THEN {<<>>}
    ELSE LET shorter == StringsUpTo(alphabet, n - 1)
         IN  shorter \cup {Append(str, c) : str \in shorter, c \in alphabet}

FilterQueries == StringsUpTo(QueryAlphabet, MaxQueryLen)

FilterDocuments ==
    { [id |-> "1", isRestricted |-> FALSE, title |-> <<"a","B">>,
       content |-> <<"A","b","A"," ","b">>, category |-> <<"b","b","b">>],
      [id |-> "2", isRestricted |-> TRUE, title |-> <<"B","A","A">>,
       content |-> <<>>, category |-> <<"a","b","a">>],
      [id |-> "3", isRestricted |-> FALSE, title |-> <<>>,
       content |-> <<"b","b"," ","a","a","b">>, category |-> <<>>],
      [id |-> "4", isRestricted |-> FALSE, title |-> <<"a","b">>,
       content |-> <<"a">>, category |-> <<"A","A","A">>],
      [id |-> "5", isRestricted |-> TRUE, title |-> <<"a"," ","b">>,
       content |-> <<"b","B","b">>, category |-> <<"b","a">>] }

RECURSIVE ListsUpTo(_, _)
ListsUpTo(S, n) ==
    IF n = 0 THEN {<<>>}
    ELSE LET shorter == ListsUpTo(S, n - 1)
         IN  shorter \cup {Append(l, x) : l \in shorter, x \in S}

FilterDocumentLists == ListsUpTo(FilterDocuments, MaxDocuments)

not_flt_idle ==
    /\ aiInstance = 0 /\ apiKey = TRUE /\ RbIdle /\ WrIdle /\ GenIdle
    /\ store_idle /\ live_idle /\ ext_idle

InitFilter ==
    /\ not_flt_idle
    /\ f_pc = "call"
    /\ f_query \in FilterQueries
    /\ f_role \in Roles
    /\ f_documents \in FilterDocumentLists
    /\ f_relevantDocs = <<>> /\ f_relevantDocsV1 = <<>>

\* documents.filter(...) as generateAnswer evaluates it, in both variants
FilterApply ==
    /\ f_pc = "call"
    /\ f_pc' = "done"
    /\ f_relevantDocs' = relevantDocs(f_query, f_role, f_documents)
    /\ f_relevantDocsV1' = relevantDocsV1(f_query, f_role, f_documents)
    /\ UNCHANGED <<f_query, f_role, f_documents>>
    /\ UNCHANGED <<rb_vars, wr_vars, aiInstance, apiKey, abort_vars, gen_vars,
                   store_vars, live_vars, ext_vars>>

NextFilter == FilterApply

SpecFilter == InitFilter /\ [][NextFilter]_vars

(***************************************************************************)
(* The document stores: StorageService of storageService.ts (a list in      *)
(* localStorage) and the 'documents' object store of databaseService.ts      *)
(* (IndexedDB, keyed by id, read in key order).                              *)
(***************************************************************************)
\* queryLower.split(' ').filter(k => k.length > 2)
searchKeywords(query) ==
    LET long(k) == Len(k) > 2
    IN  SelectSeq(split(toLowerCase(query), " "), long)

storageSearch_NoCategory(query, docs) ==
    LET keywords == searchKeywords(query)
        keep(doc) ==
          LET content == toLowerCase(doc.title \o <<" ">> \o doc.content)
          IN  \E i \in DOMAIN keywords : includes(content, keywords[i])
    IN  SelectSeq(docs, keep)

\* StorageService.searchDocuments (storageService.ts 102-111) over the list
\* getDocuments() returned
storageSearch(query, docs) ==
    LET keywords == searchKeywords(query)
        keep(doc) ==
          LET content == toLowerCase(doc.title \o <<" ">> \o doc.content
                                       \o <<" ">> \o doc.category)
          IN  \E i \in DOMAIN keywords : includes(content, keywords[i])
    IN  SelectSeq(docs, keep)

\* searchDocuments (databaseService.ts 130-139) over the list getAllDocuments()
\* resolved to
dbSearch(query, docs) ==
    LET keywords == searchKeywords(query)
        keep(doc) ==
          LET content == toLowerCase(doc.title \o <<" ">> \o doc.content)
          IN  \E i \in DOMAIN keywords : includes(content, keywords[i])
    IN  SelectSeq(docs, keep)

\* docs.findIndex(d => d.id === id): 0 stands for -1
findIndex(docs, id) ==
    IF \E i \in DOMAIN docs : docs[i].id = id
    THEN CHOOSE i \in DOMAIN docs :
            /\ docs[i].id = id
            /\ \A j \in 1..(i - 1) : docs[j].id # id
    ELSE 0

\* StorageService.addDocument (lines 79-83)
StoreAddStep(doc) ==
    /\ st_docs' = Append(st_docs, doc)
    /\ UNCHANGED <<db_docs, sr_query, sr_store, sr_result>>

\* StorageService.updateDocument (lines 85-94)
StoreUpdateStep(doc) ==
    /\ LET index == findIndex(st_docs, doc.id)
       IN  st_docs' = IF index > 0 THEN [st_docs EXCEPT ![index] = doc]
                      ELSE Append(st_docs, doc)
    /\ UNCHANGED <<db_docs, sr_query, sr_store, sr_result>>

\* StorageService.deleteDocument (lines 96-99)
StoreDeleteStep(id) ==
    /\ LET other(d) == d.id # id
       IN  st_docs' = SelectSeq(st_docs, other)
    /\ UNCHANGED <<db_docs, sr_query, sr_store, sr_result>>

\* StorageService.searchDocuments(query)
StoreSearchStep(query) ==
    /\ sr_store' = "StorageService"
    /\ sr_result' = storageSearch(query, st_docs)
    /\ UNCHANGED <<st_docs, db_docs, sr_query>>

\* the ids in the key order of the object store
KeyOrder == <<"1", "2">>

\* getAllDocuments (lines 106-116): the records in key order
getAllDocuments(db) ==
    LET stored(id) == id \in DOMAIN db
        ids == SelectSeq(KeyOrder, stored)
    IN  [i \in DOMAIN ids |-> db[ids[i]]]

\* saveDocument (lines 82-92): store.put(doc) inserts or replaces by key
DbSaveStep(doc) ==
    /\ db_docs' = [id \in DOMAIN db_docs \cup {doc.id} |->
                      IF id = doc.id THEN doc ELSE db_docs[id]]
    /\ UNCHANGED <<st_docs, sr_query, sr_store, sr_result>>

\* deleteDocument (lines 118-128): store.delete(id)
DbDeleteStep(id) ==
    /\ db_docs' = [k \in DOMAIN db_docs \ {id} |-> db_docs[k]]
    /\ UNCHANGED <<st_docs, sr_query, sr_store, sr_result>>

\* searchDocuments(query): the read transaction and the filter over it
DbSearchStep(query) ==
    /\ sr_store' = "databaseService"
    /\ sr_result' = dbSearch(query, getAllDocuments(db_docs))
    /\ UNCHANGED <<st_docs, db_docs, sr_query>>

(***************************************************************************)
(* SpecSearch: documents are added, replaced and deleted and the stores are  *)
(* searched for a query chosen by the environment, in any order.             *)
(***************************************************************************)
MaxSearchLen == 3
MaxStoreDocs == 2

SearchAlphabet == {"a", "B", " "}

\* queries holding a tab or a line break
TabbedQueries ==
    {<<"b","a","b","\t","x">>, <<"a","\t","a">>, <<"a","\n","b","a","b">>,
     <<"x","\t","b","b","b">>}

SearchQueries == StringsUpTo(SearchAlphabet, MaxSearchLen) \cup TabbedQueries

\* "ab" + "a" holds no "aba"; "bab" is in the category alone
StoreDocA ==
    [id |-> "1", isRestricted |-> FALSE, title |-> <<"a","B">>,
     content |-> <<"a">>, category |-> <<"b","a","b">>]

StoreDocB ==
    [id |-> "2", isRestricted |-> FALSE, title |-> <<>>,
     content |-> <<"B","A","B"," ","a","\t","a">>, category |-> <<>>]

\* a second version of document "1"
StoreDocC ==
    [id |-> "1", isRestricted |-> TRUE, title |-> <<"b","b","b">>,
     content |-> <<>>, category |-> <<"A","A","A">>]

StoreDocuments == {StoreDocA, StoreDocB, StoreDocC}

store_frame == <<rb_vars, wr_vars, aiInstance, apiKey, abort_vars, gen_vars,
                 flt_vars, live_vars, ext_vars>>

\* getInitialDocuments(): the documents initializeData seeds the list with
EmbeddedDocuments == <<StoreDocB>>

InitSearch ==
    /\ aiInstance = 0 /\ apiKey = TRUE /\ RbIdle /\ WrIdle /\ GenIdle
    /\ flt_idle /\ live_idle /\ ext_idle
    /\ st_docs = EmbeddedDocuments /\ db_docs = <<>>
    /\ sr_query \in SearchQueries /\ sr_store = "none" /\ sr_result = <<>>

StoreAdd ==
    /\ Len(st_docs) < MaxStoreDocs
    /\ \E doc \in StoreDocuments : StoreAddStep(doc)
    /\ UNCHANGED store_frame

StoreUpdate ==
    /\ \E doc \in StoreDocuments :
          /\ findIndex(st_docs, doc.id) > 0 \/ Len(st_docs) < MaxStoreDocs
          /\ StoreUpdateStep(doc)
    /\ UNCHANGED store_frame

StoreDelete ==
    /\ \E doc \in StoreDocuments : StoreDeleteStep(doc.id)
    /\ UNCHANGED store_frame

StoreSearch == StoreSearchStep(sr_query) /\ UNCHANGED store_frame

DbSave ==
    /\ \E doc \in StoreDocuments : DbSaveStep(doc)
    /\ UNCHANGED store_frame

DbDelete ==
    /\ \E doc \in StoreDocuments : DbDeleteStep(doc.id)
    /\ UNCHANGED store_frame

DbSearch == DbSearchStep(sr_query) /\ UNCHANGED store_frame

NextSearch ==
    \/ StoreAdd \/ StoreUpdate \/ StoreDelete \/ StoreSearch
    \/ DbSave \/ DbDelete \/ DbSearch

SpecSearch == InitSearch /\ [][NextSearch]_vars

\* the timers fire and the pending operation settles
SpecRetryFair == SpecRetry /\ WF_vars(NextRetry)

(***************************************************************************)
(* Claims about the retry wrappers (checked under SpecRetry/SpecRetryFair). *)
(***************************************************************************)
\* every outcome of the sequence is a failure with a retryable error
AllRetryableFailures(outcomes) ==
    \A i \in DOMAIN outcomes :
        ~outcomes[i].ok /\ isRetryable(outcomes[i].error)

Front(seq) == SubSeq(seq, 1, Len(seq) - 1)
Last(seq) == seq[Len(seq)]

\* C1: retryWithBackoff, on an operation that fails N times with a retryable
\* error and then succeeds, N not above maxRetries (so in particular for every
\* N < maxRetries), has not given up after the N failures, and once the
\* operation has succeeded it has returned that value after exactly N+1
\* invocations.
C1_SuccessAfterRetryableFailures ==
    /\ (rb_pc # "idle" /\ AllRetryableFailures(rb_outcomes)
          /\ Len(rb_outcomes) <= rb_maxRetries)
       => /\ rb_pc \in {"call", "pending", "sleep"}
          /\ rb_calls \in {Len(rb_outcomes), Len(rb_outcomes) + 1}
    /\ (rb_outcomes # <<>> /\ Last(rb_outcomes).ok
          /\ AllRetryableFailures(Front(rb_outcomes)))
       => /\ rb_pc = "returned"
          /\ rb_result = Last(rb_outcomes).value
          /\ rb_calls = Len(Front(rb_outcomes)) + 1

\* the scenario of the specification: {status: 429} twice, then "ok", with
\* maxRetries = 3 and initialBackoff = 1000: "ok" after 3 calls and two sleeps
C1_Witness ==
    /\ rb_pc = "returned" /\ rb_result = RespAnswer /\ rb_calls = 3
    /\ rb_maxRetries = 3 /\ rb_initialBackoff = 1000
    /\ Len(rb_outcomes) = 3
    /\ rb_outcomes[1].error = ErrStatus429
    /\ rb_outcomes[2].error = ErrStatus429
    /\ Len(rb_delays) = 2

\* C2: when the first call of the operation fails with a non-retryable error,
\* retryWithBackoff invokes the operation exactly once, schedules no delay and
\* throws the very error object the operation threw.
C2_NonRetryablePropagates ==
    (rb_outcomes # <<>> /\ ~rb_outcomes[1].ok
        /\ ~isRetryable(rb_outcomes[1].error))
    => /\ rb_pc = "threw"
       /\ rb_calls = 1
       /\ Len(rb_outcomes) = 1
       /\ rb_delays = <<>>
       /\ rb_thrown = rb_outcomes[1].error
       /\ rb_thrown.origin = "operation"

C2_Witness ==
    /\ rb_pc = "threw" /\ rb_maxRetries = 3 /\ rb_calls = 1
    /\ rb_outcomes = <<[ok |-> FALSE, value |-> NoResponse,
                        error |-> ErrBadRequest]>>
    /\ rb_thrown = ErrBadRequest

PleaseWait == <<"P","l","e","a","s","e"," ","w","a","i","t">>

\* the wrapper has thrown after failures that were all retryable
RbExhausted ==
    rb_pc = "threw" /\ rb_outcomes # <<>> /\ AllRetryableFailures(rb_outcomes)

\* withRetry has thrown after failures none of which is rethrown at once
WrExhausted ==
    /\ wr_pc = "threw" /\ wr_outcomes # <<>>
    /\ \A i \in DOMAIN wr_outcomes :
          ~wr_outcomes[i].ok /\ ~wrRethrowsAtOnce(wr_outcomes[i].error)

\* C3 as stated: when every attempt fails with a retryable error the wrapper
\* stops after maxAttempts (its second parameter) invocations in total and
\* rethrows the last error, a rate-limit failure as a new 'please wait' error.
C3_Original ==
    /\ RbExhausted =>
         /\ rb_calls = rb_maxRetries
         /\ IF isRateLimited(Last(rb_outcomes).error)
            THEN rb_thrown.origin = "wrapper" /\ includes(rb_thrown.message, PleaseWait)
            ELSE rb_thrown = Last(rb_outcomes).error
    /\ WrExhausted =>
         /\ wr_calls = wr_maxRetries
         /\ IF isRateLimited(Last(wr_outcomes).error)
            THEN wr_thrown.origin = "wrapper" /\ includes(wr_thrown.message, PleaseWait)
            ELSE wr_thrown = Last(wr_outcomes).error

RbExhaustion ==
    /\ rb_calls <= rb_maxRetries + 1
    /\ Len(rb_delays) <= rb_maxRetries
    /\ (AllRetryableFailures(rb_outcomes) /\ Len(rb_outcomes) = rb_maxRetries + 1)
       => rb_pc = "threw"
    /\ RbExhausted =>
         /\ rb_calls = rb_maxRetries + 1
         /\ IF isRateLimited(Last(rb_outcomes).error)
            THEN rb_thrown.origin = "wrapper" /\ includes(rb_thrown.message, PleaseWait)
            ELSE rb_thrown = Last(rb_outcomes).error

WrExhaustion ==
    /\ wr_calls <= wr_maxRetries + 1
    /\ Len(wr_delays) <= wr_maxRetries
    /\ WrExhausted =>
         /\ wr_calls = wr_maxRetries + 1
         /\ wr_thrown = Last(wr_outcomes).error

RetryDone ==
    \/ rb_pc \in {"returned", "threw"}
    \/ wr_pc \in {"returned", "threw"}

\* C3 (amended): when every attempt fails with a retryable error, both
\* wrappers stop after maxRetries + 1 invocations in total (the first attempt
\* and maxRetries retries); retryWithBackoff rethrows the last error, a
\* rate-limit failure as a new 'please wait' error, while withRetry rethrows
\* the last error unchanged whatever its kind; the wrapper always terminates.
C3_Exhaustion == [](RbExhaustion /\ WrExhaustion) /\ <>RetryDone

C3_Witness ==
    /\ RbExhausted /\ rb_maxRetries = 3 /\ rb_calls = 4
    /\ Last(rb_outcomes).error = ErrQuota
    /\ rb_thrown = RateLimitExceededError

C5_NoInvocationAfterCancel ==
    [][g_cancelled => wr_calls' = wr_calls]_vars

\* C6: when cancelCurrentRequest() was called while generateAnswer awaited the
\* API call, generateAnswer resolves to the neutral cancelled result.
C6_CancelledResult ==
    (g_pc = "resolved" /\ g_cancelled) => g_result = CancelledResult

\* the texts the catch block of generateAnswer can produce
UserFacingErrorTexts ==
    {"[!] **Error**\n\nAPI key error. Please check your configuration.",
     "[!] **Error**\n\nToo many requests. Please wait a moment and try again.",
     "[!] **Error**\n\nNetwork error. Please check your internet connection.",
     "[!] **Error**\n\nAn error occurred while processing your request.",
     "Request was cancelled."}

\* generateAnswer failed: the client could not be acquired (withRetry never
\* entered) or withRetry threw
GenFailed ==
    /\ g_variant = "geminiService"
    /\ g_pc # "idle" /\ g_pc # "awaiting" /\ wr_pc \in {"idle", "threw"}

\* the texts the catch block of generateAnswer of unnamed/part_001 can produce
UserFacingErrorTextsV1 ==
    {RateLimitTextV1, ConfigurationTextV1, NetworkTextV1, ServerTextV1}
      \cup {GenericTextV1(e.message) :
               e \in OperationErrors \cup {ConfigurationErrorV1}}

GenFailedV1 ==
    /\ g_variant = "part_001"
    /\ g_pc # "idle" /\ g_pc # "awaiting" /\ rb_pc \in {"idle", "threw"}

\* C7: generateAnswer never rejects; when client acquisition, the retry
\* wrapper or the API call fails it resolves to a result whose text is a
\* user-facing message about the failure, whose citations are empty and
\* whose needsWebSearchApproval is false.
C7_NeverRejects ==
    /\ g_pc \in {"idle", "awaiting", "resolved"}
    /\ GenFailed =>
         /\ g_pc = "resolved"
         /\ g_result.text \in UserFacingErrorTexts
         /\ g_result.citations = <<>>
         /\ g_result.needsWebSearchApproval = FALSE
    /\ GenFailedV1 =>
         /\ g_pc = "resolved"
         /\ g_result.text \in UserFacingErrorTextsV1
         /\ g_result.citations = <<>>
         /\ g_result.needsWebSearchApproval = FALSE

\* three server failures in a row exhaust withRetry
C7_Witness ==
    /\ GenFailed /\ wr_calls = 3 /\ wr_thrown = ErrServer
    /\ g_result.text
         = "[!] **Error**\n\nAn error occurred while processing your request."

\* four server failures in a row exhaust retryWithBackoff
C7_WitnessV1 ==
    /\ GenFailedV1 /\ rb_calls = 4 /\ rb_thrown = ErrServer
    /\ g_result.text = ServerTextV1

(***************************************************************************)
(* Claims about the document filter (SpecFilter, SpecGen).                  *)
(***************************************************************************)
\* q[i..j] is a token of q: a maximal run of characters other than the space
IsToken(q, i, j) ==
    /\ 1 <= i /\ i <= j /\ j <= Len(q)
    /\ \A k \in i..j : q[k] # " "
    /\ i = 1 \/ q[i - 1] = " "
    /\ j = Len(q) \/ q[j + 1] = " "

\* the two characters are equal up to letter case
SameLetter(c, d) ==
    (IF c \in DOMAIN LowerOf THEN LowerOf[c] ELSE c)
      = (IF d \in DOMAIN LowerOf THEN LowerOf[d] ELSE d)

\* q[i..j] occurs in text, case-insensitively
OccursIn(text, q, i, j) ==
    \E pos \in 0..(Len(text) - (j - i + 1)) :
        \A k \in 0..(j - i) : SameLetter(text[pos + 1 + k], q[i + k])

\* the tokens of q longer than 2 characters, as index pairs
LongTokens(q) ==
    {ij \in (1..Len(q)) \X (1..Len(q)) :
        IsToken(q, ij[1], ij[2]) /\ ij[2] - ij[1] + 1 > 2}

\* title or content contains a token of q longer than 2 characters
MatchesKeyword(doc, q) ==
    \E ij \in LongTokens(q) :
        \/ OccursIn(doc.title, q, ij[1], ij[2])
        \/ OccursIn(doc.content, q, ij[1], ij[2])

Permitted(doc, role) == ~(role = "PUBLIC" /\ doc.isRestricted)

\* the subsequence of docs selected by the claim
ExpectedDocs(q, role, docs) ==
    LET keep(doc) == Permitted(doc, role) /\ MatchesKeyword(doc, q)
    IN  SelectSeq(docs, keep)

\* C8: the documents used as internal context are exactly the documents of D,
\* permitted for the role, whose title or content contains case-insensitively
\* a token of q longer than 2 characters (in both variants of generateAnswer);
\* the result is empty when q has no such token.
C8_FilterExact ==
    f_pc = "done" =>
        /\ f_relevantDocs = ExpectedDocs(f_query, f_role, f_documents)
        /\ f_relevantDocsV1 = ExpectedDocs(f_query, f_role, f_documents)
        /\ LongTokens(f_query) = {} => f_relevantDocs = <<>>

\* the token "aBa" selects "AbA b" by content and "BAA" of a restricted
\* document is left out for PUBLIC; "ab" + "a" does not match across fields
C8_Witness ==
    /\ f_pc = "done" /\ f_role = "PUBLIC"
    /\ f_query = <<"a","B","a"," ">>
    /\ Len(f_documents) = 2
    /\ f_documents[1].id = "4" /\ f_documents[2].id = "1"
    /\ Len(f_relevantDocs) = 1 /\ f_relevantDocs[1].id = "1"

NotRestricted(doc) == ~doc.isRestricted

\* the titles of the citations of internal documents
InternalTitles(result) ==
    {result.citations[i].title : i \in
        {k \in DOMAIN result.citations :
            result.citations[k].sourceType = "INTERNAL"}}

\* generateAnswer of geminiService.ts resolved with the answer of the API
GenAnswered ==
    /\ g_variant = "geminiService"
    /\ g_pc = "resolved" /\ wr_pc = "returned" /\ g_result # CancelledResult

\* C9: for PUBLIC no restricted document is among the filtered documents, and
\* the filtered documents, the context sent in the system instruction and the
\* internal citations are those obtained with the restricted documents
\* removed from the input; for a privileged role a restricted document that
\* matches a keyword is filtered in, its record is in the context and it is
\* cited.
C9_RestrictedHidden ==
    g_pc # "idle" =>
      LET public == SelectSeq(g_documents, NotRestricted)
          publicDocs == ExpectedDocs(g_query, "PUBLIC", public)
      IN
      /\ g_role = "PUBLIC" =>
           /\ \A i \in DOMAIN g_relevantDocs : ~g_relevantDocs[i].isRestricted
           /\ g_relevantDocs = publicDocs
           /\ g_pc = "awaiting" /\ g_variant = "geminiService" =>
                g_request.internalContext = internalContext(publicDocs)
           /\ GenAnswered =>
                InternalTitles(g_result) = {publicDocs[i].title : i \in DOMAIN publicDocs}
           /\ g_pc = "resolved" /\ g_variant = "geminiService" /\ ~GenAnswered
                => g_result.citations = <<>>
      /\ g_role # "PUBLIC" =>
           \A i \in DOMAIN g_documents :
              (g_documents[i].isRestricted /\ MatchesKeyword(g_documents[i], g_query))
              => /\ \E k \in DOMAIN g_relevantDocs : g_relevantDocs[k] = g_documents[i]
                 /\ g_pc = "awaiting" /\ g_variant = "geminiService" =>
                      includes(g_request.internalContext,
                               <<"[">> \o g_documents[i].title \o <<"]","\n">>
                                 \o g_documents[i].content)
                 /\ GenAnswered => g_documents[i].title \in InternalTitles(g_result)

\* PUBLIC asks "fees" over the public "Fees" record and the restricted "Fee
\* dues" record, which matches the keyword too: only "Fees" is cited
C9_Witness ==
    /\ GenAnswered /\ g_role = "PUBLIC"
    /\ g_query = <<"f","e","e","s">>
    /\ g_documents = <<DocUSN, DocFees, DocDues>>
    /\ g_relevantDocs = <<DocFees>>
    /\ InternalTitles(g_result) = {DocFees.title}

(***************************************************************************)
(* Claims about the document-store search (SpecSearch).                     *)
(***************************************************************************)
IsWhitespace(c) == c \in {" ", "\t", "\n"}

\* the maximal whitespace-free runs of q longer than 2 characters
LongWhitespaceTokens(q) ==
    {ij \in (1..Len(q)) \X (1..Len(q)) :
        /\ ij[1] <= ij[2] /\ ij[2] - ij[1] + 1 > 2
        /\ \A k \in ij[1]..ij[2] : ~IsWhitespace(q[k])
        /\ ij[1] = 1 \/ IsWhitespace(q[ij[1] - 1])
        /\ ij[2] = Len(q) \/ IsWhitespace(q[ij[2] + 1])}

\* the documents whose title and content, joined, contain such a token
TitleContentMatches(q, docs) ==
    LET keep(doc) ==
          \E ij \in LongWhitespaceTokens(q) :
             OccursIn(doc.title \o <<" ">> \o doc.content, q, ij[1], ij[2])
    IN  SelectSeq(docs, keep)

\* C10 as stated: search(query) returns exactly the stored documents whose
\* lower-cased title and content contain a token of the lower-cased query,
\* split on whitespace, that is longer than 2 characters; a document that
\* matches only through another field is not returned.
C10_Original ==
    [][ /\ StoreSearch => sr_result' = TitleContentMatches(sr_query, st_docs)
        /\ DbSearch => sr_result' = TitleContentMatches(
                                       sr_query, getAllDocuments(db_docs)) ]_vars

\* the documents of which one of the given fields contains, case-insensitively,
\* a token of q (split at the space character) longer than 2 characters
FieldMatches(q, docs, withCategory) ==
    LET keep(doc) ==
          \E ij \in LongTokens(q) :
             \/ OccursIn(doc.title, q, ij[1], ij[2])
             \/ OccursIn(doc.content, q, ij[1], ij[2])
             \/ withCategory /\ OccursIn(doc.category, q, ij[1], ij[2])
    IN  SelectSeq(docs, keep)

\* C10: search(query) splits the query at the space character alone, keeps
\* the tokens longer than 2 characters and returns, in stored order, exactly
\* the stored documents of which a field contains one of them
\* case-insensitively: title or content in databaseService.searchDocuments,
\* title, content or category in StorageService.searchDocuments.
C10_StoreSearch ==
    [][ /\ StoreSearch => sr_result' = FieldMatches(sr_query, st_docs, TRUE)
        /\ DbSearch => sr_result' = FieldMatches(
                                       sr_query, getAllDocuments(db_docs),
                                       FALSE) ]_vars

\* StorageService returns a document for "BaB" through its category alone,
\* next to one that holds "BAB" in its content
C10_Witness ==
    /\ sr_store = "StorageService"
    /\ sr_query = <<"B","a","B">>
    /\ st_docs = <<StoreDocB, StoreDocA>>
    /\ sr_result = <<StoreDocB, StoreDocA>>

(***************************************************************************)
(* The live voice component: components/LiveVoiceInterface.tsx 1-610, and   *)
(* the earlier text of the same component in unnamed/part_002.              *)
(* A callback keeps the status and isMuted of the render in which the       *)
(* startSession that installed it was created (useCallback closures);       *)
(* lv_closure holds them per call of startSession.  Refs are shared.        *)
(***************************************************************************)
LiveVariants == {"LiveVoiceInterface", "part_002"}

\* useState<LiveStatus>(...): LiveVoiceInterface.tsx 46, part_002 12
InitialStatus(variant) ==
    IF variant = "LiveVoiceInterface" THEN "initializing" ELSE "connecting"

\* a buffer source that was not created yet
NoSource == [state |-> "none", closure |-> 0]

\* the state and the refs of the component as one value, on which the
\* handlers below work
Live ==
    [status |-> lv_status, isMuted |-> lv_isMuted,
     errorMessage |-> lv_errorMessage, retryCount |-> lv_retryCount,
     isMounted |-> lv_isMountedRef,
     inputContext |-> lv_inputContextRef,
     outputContext |-> lv_outputContextRef,
     mediaStream |-> lv_mediaStreamRef, session |-> lv_sessionRef,
     inputContexts |-> lv_inputContexts,
     outputContexts |-> lv_outputContexts,
     tracks |-> lv_tracks, sessions |-> lv_sessions,
     processors |-> lv_processors,
     startSession |-> lv_startSession, closure |-> lv_closure,
     cleanup |-> lv_cleanup,
     audioQueue |-> lv_audioQueueRef, isPlaying |-> lv_isPlayingRef,
     currentSource |-> lv_currentSourceRef, sources |-> lv_sources,
     started |-> lv_started, sent |-> lv_sent, closeBegun |-> lv_closeBegun]

SetLive(p) ==
    /\ lv_status' = p.status /\ lv_isMuted' = p.isMuted
    /\ lv_errorMessage' = p.errorMessage /\ lv_retryCount' = p.retryCount
    /\ lv_isMountedRef' = p.isMounted
    /\ lv_inputContextRef' = p.inputContext
    /\ lv_outputContextRef' = p.outputContext
    /\ lv_mediaStreamRef' = p.mediaStream /\ lv_sessionRef' = p.session
    /\ lv_inputContexts' = p.inputContexts
    /\ lv_outputContexts' = p.outputContexts
    /\ lv_tracks' = p.tracks /\ lv_sessions' = p.sessions
    /\ lv_processors' = p.processors
    /\ lv_startSession' = p.startSession /\ lv_closure' = p.closure
    /\ lv_cleanup' = p.cleanup
    /\ lv_audioQueueRef' = p.audioQueue /\ lv_isPlayingRef' = p.isPlaying
    /\ lv_currentSourceRef' = p.currentSource /\ lv_sources' = p.sources
    /\ lv_started' = p.started /\ lv_sent' = p.sent
    /\ lv_closeBegun' = p.closeBegun

\* setStatus(s): React drops the update of a component that is unmounted
setStatus(p, s) ==
    IF p.isMounted THEN [p EXCEPT !.status = s] ELSE p

\* playNextInQueue (LiveVoiceInterface.tsx 103-127) and playNextAudio
\* (part_002 55-79), run by a callback of the call a of startSession; the
\* source of frame f plays from source.start(0) until it finishes or is
\* stopped, and its ended event is delivered later
playNextInQueue(p, a) ==
    IF p.outputContext = 0 \/ p.audioQueue = <<>>
    THEN LET q == [p EXCEPT !.isPlaying = FALSE]
         IN  IF p.closure[a].status = "speaking"
                /\ (lv_variant = "part_002" => p.isMounted)
             THEN setStatus(q, "listening")
             ELSE q
    ELSE LET f == Head(p.audioQueue)
             q == [p EXCEPT !.isPlaying = TRUE]
             r == IF lv_variant = "part_002" /\ ~p.isMounted
                  THEN q ELSE setStatus(q, "speaking")
         IN  [r EXCEPT !.audioQueue = Tail(p.audioQueue),
                       !.currentSource = f,
                       !.sources[f] = [state |-> "playing", closure |-> a],
                       !.started = Append(@, f)]

\* decodeAudioData (LiveVoiceInterface.tsx 78-100): null without an output
\* context or when the data cannot be decoded
decodeAudioData(p, f, decodable) ==
    IF p.outputContext = 0 \/ ~decodable THEN 0 ELSE f

\* enqueueAudio (LiveVoiceInterface.tsx 130-140, part_002 82-91)
enqueueAudio(p, a, f, decodable) ==
    LET buffer == decodeAudioData(p, f, decodable)
    IN  IF buffer = 0 THEN p
        ELSE LET q == [p EXCEPT !.audioQueue = Append(@, buffer)]
             IN  IF ~q.isPlaying THEN playNextInQueue(q, a) ELSE q

\* source.stop() on the source of frame f: a playing source falls silent
\* and its ended event becomes pending
stopSource(sources, f) ==
    IF sources[f].state = "playing"
    THEN [sources EXCEPT ![f].state = "stopped"]
    ELSE sources

\* stopAudio (LiveVoiceInterface.tsx 143-152; part_002 94-100 leaves
\* currentSourceRef as it is)
stopAudio(p) ==
    LET q == IF p.currentSource # 0
             THEN [p EXCEPT !.sources = stopSource(@, p.currentSource),
                            !.currentSource =
                                IF lv_variant = "part_002" THEN @ ELSE 0]
             ELSE p
    IN  [q EXCEPT !.audioQueue = <<>>, !.isPlaying = FALSE]

\* source.onended (LiveVoiceInterface.tsx 120-123, part_002 72-75)
onended(p, f) ==
    playNextInQueue([p EXCEPT !.sources[f].state = "done",
                              !.currentSource = 0],
                    p.sources[f].closure)

\* a message of the server: at most one audio part ("ok" decodes, "bad" does
\* not) and the interrupted flag
Messages ==
    { [audio |-> x, interrupted |-> i] :
        x \in {"none", "ok", "bad"}, i \in BOOLEAN }
    \ { [audio |-> "none", interrupted |-> FALSE] }

\* callbacks.onmessage (LiveVoiceInterface.tsx 278-304, part_002 188-209) of
\* the session of call a, for message msg whose audio part is frame f
onmessage(p, a, msg, f) ==
    IF ~p.isMounted THEN p
    ELSE LET q == IF msg.audio # "none"
                  THEN enqueueAudio(p, a, f, msg.audio = "ok")
                  ELSE p
         IN  IF msg.interrupted
             THEN setStatus(stopAudio(q), "listening")
             ELSE q

\* the variables of the other components
live_frame == <<rb_vars, wr_vars, aiInstance, apiKey, abort_vars, gen_vars,
                flt_vars, store_vars, ext_vars>>

\* callbacks.onmessage of the session of call a
LvMessageStep(a, msg) ==
    /\ lv_sessions[a] = "open"
    /\ msg.audio # "none" => lv_frames < MaxFrames
    /\ SetLive(onmessage(Live, a, msg, lv_frames + 1))
    /\ lv_frames' = IF msg.audio # "none" THEN lv_frames + 1 ELSE lv_frames
    /\ lv_last' = IF ~lv_isMountedRef THEN "onmessage"
                  ELSE IF msg.interrupted THEN "interrupted" ELSE "frame"
    /\ UNCHANGED <<lv_variant, live_earlier>>

\* the buffer of frame f has been played to its end
LvSourceFinishesStep(f) ==
    /\ lv_sources[f].state = "playing"
    /\ lv_sources' = [lv_sources EXCEPT ![f].state = "finished"]
    /\ UNCHANGED <<lv_status, lv_audioQueueRef, lv_isPlayingRef,
                   lv_currentSourceRef, lv_started>>
    /\ UNCHANGED <<live_state, live_refs, live_objects, live_calls,
                   live_history, live_earlier>>

\* the ended event of the source of frame f is delivered
LvSourceEndedStep(f) ==
    /\ lv_sources[f].state \in {"finished", "stopped"}
    /\ SetLive(onended(Live, f))
    /\ lv_last' = "onended"
    /\ UNCHANGED <<lv_variant, lv_frames, live_earlier>>

ConnectionClosedText == "Connection closed"
ConnectionErrorText == "Connection error"

\* callbacks.onclose (LiveVoiceInterface.tsx 305-311, part_002 210-216): the
\* connection of the session of call a is closed
LvOnCloseStep(a) ==
    /\ lv_sessions[a] \in {"connecting", "open", "closing"}
    /\ lv_sessions' = [lv_sessions EXCEPT ![a] = "closed"]
    /\ IF lv_isMountedRef
          /\ (lv_variant = "LiveVoiceInterface"
                => lv_closure[a].status # "error")
       THEN /\ lv_status' = "error"
            /\ lv_errorMessage' = ConnectionClosedText
       ELSE UNCHANGED <<lv_status, lv_errorMessage>>
    /\ UNCHANGED <<lv_variant, lv_isMuted, lv_retryCount, lv_isMountedRef>>
    /\ UNCHANGED <<live_refs, lv_inputContexts, lv_outputContexts, lv_tracks,
                   lv_processors, live_calls, lv_audioQueueRef,
                   lv_isPlayingRef, lv_currentSourceRef, lv_sources,
                   lv_started, live_history, live_earlier>>

\* callbacks.onerror (LiveVoiceInterface.tsx 312-318, part_002 217-223)
LvOnErrorStep(a) ==
    /\ lv_sessions[a] \in {"connecting", "open"}
    /\ IF lv_isMountedRef
       THEN /\ lv_status' = "error"
            /\ lv_errorMessage' = ConnectionErrorText
       ELSE UNCHANGED <<lv_status, lv_errorMessage>>
    /\ UNCHANGED <<lv_variant, lv_isMuted, lv_retryCount, lv_isMountedRef>>
    /\ UNCHANGED <<live_refs, live_objects, live_calls, lv_audioQueueRef,
                   lv_isPlayingRef, lv_currentSourceRef, lv_sources,
                   lv_started, live_history, live_earlier>>

NoClosure == [status |-> "none", isMuted |-> FALSE]

\* the calls of cleanup: by handleClose, by the unmount, by the catch of the
\* call n of startSession, by the retry that makes the call n of startSession
CleanupCalls ==
    {[by |-> "handleClose", n |-> 0], [by |-> "unmount", n |-> 0]}
    \cup {[by |-> "catch", n |-> a] : a \in Attempts}
    \cup {[by |-> "handleRetry", n |-> r] : r \in 1..MaxRetryPresses}

\* a call of startSession: where it stands, and the audio context whose
\* promise it awaits
NoStartSession == [pc |-> "idle", ctx |-> 0]
StartSessionDone == [pc |-> "done", ctx |-> 0]

\* a call of cleanup: where it stands, the audio context whose close() it
\* awaits, the steps it went through, the steps that throw; a retry also
\* holds the closure of the startSession it is going to call
NoCleanup ==
    [pc |-> "idle", ctx |-> 0, steps |-> <<>>, faults |-> {},
     closure |-> NoClosure]


\* the component while the session of its first call of startSession is open:
\* contexts running, microphone live, status 'listening', nothing played yet
InitPlayback ==
    /\ aiInstance = 0 /\ apiKey = TRUE /\ RbIdle /\ WrIdle /\ GenIdle
    /\ flt_idle /\ store_idle /\ ext_idle
    /\ lv_variant \in LiveVariants
    /\ lv_status = "listening" /\ lv_isMuted = FALSE
    /\ lv_errorMessage = "" /\ lv_retryCount = 0 /\ lv_isMountedRef = TRUE
    /\ lv_inputContextRef = 1 /\ lv_outputContextRef = 1
    /\ lv_mediaStreamRef = 1 /\ lv_sessionRef = 1
    /\ lv_inputContexts = [a \in Attempts |-> IF a = 1 THEN "running" ELSE "none"]
    /\ lv_outputContexts = [a \in Attempts |-> IF a = 1 THEN "running" ELSE "none"]
    /\ lv_tracks = [a \in Attempts |-> IF a = 1 THEN "live" ELSE "none"]
    /\ lv_sessions = [a \in Attempts |-> IF a = 1 THEN "open" ELSE "none"]
    /\ lv_processors = {}
    /\ lv_startSession = [a \in Attempts |->
                             IF a = 1 THEN StartSessionDone ELSE NoStartSession]
    /\ lv_closure = [a \in Attempts |->
                        IF a = 1
                        THEN [status |-> InitialStatus(lv_variant),
                              isMuted |-> FALSE]
                        ELSE NoClosure]
    /\ lv_cleanup = [c \in CleanupCalls |-> NoCleanup]
    /\ lv_audioQueueRef = <<>> /\ lv_isPlayingRef = FALSE
    /\ lv_currentSourceRef = 0
    /\ lv_sources = [f \in Frames |-> NoSource]
    /\ lv_frames = 0 /\ lv_started = <<>>
    /\ lv_last = "onopen" /\ lv_sent = 0 /\ lv_closeBegun = FALSE
    /\ lv_reads = 0 /\ lv_thens = 0

LvMessage ==
    /\ \E a \in Attempts, msg \in Messages : LvMessageStep(a, msg)
    /\ UNCHANGED live_frame

LvSourceFinishes ==
    /\ \E f \in Frames : LvSourceFinishesStep(f)
    /\ UNCHANGED live_frame

LvSourceEnded ==
    /\ \E f \in Frames : LvSourceEndedStep(f)
    /\ UNCHANGED live_frame

LvOnClose ==
    /\ \E a \in Attempts : LvOnCloseStep(a)
    /\ UNCHANGED live_frame

LvOnError ==
    /\ \E a \in Attempts : LvOnErrorStep(a)
    /\ UNCHANGED live_frame

NextPlayback ==
    \/ LvMessage
    \/ LvSourceFinishes
    \/ LvSourceEnded
    \/ LvOnClose
    \/ LvOnError

SpecPlayback == InitPlayback /\ [][NextPlayback]_vars

(***************************************************************************)
(* cleanup.  A step of cleanup that the caller asked to fail (faults)       *)
(* throws; steps lists the statements of cleanup reached so far.            *)
(***************************************************************************)
CleanupSteps ==
    <<"source", "node", "tracks", "inputContext", "outputContext",
      "session">>

logStep(s, c, step) == [s EXCEPT !.cleanup[c].steps = Append(@, step)]

\* session.close(): the connection starts to close
closeSession(state) ==
    IF state \in {"connecting", "open"} THEN "closing" ELSE state

\* workletNodeRef (LiveVoiceInterface.tsx 60) is never assigned: it is null
workletNodeRef == 0

\* cleanup, LiveVoiceInterface.tsx 176-186: the context refs are cleared and
\* the session in sessionRef is closed; a retry then starts its delay
cleanupSession(s, c) ==
    LET s1 == [logStep(s, c, "session") EXCEPT
                  !.inputContext = 0, !.outputContext = 0]
        s2 == IF s1.session # 0
              THEN [s1 EXCEPT
                      !.sessions[s1.session] =
                          IF "session" \in s.cleanup[c].faults
                          THEN @ ELSE closeSession(@),
                      !.session = 0]
              ELSE s1
    IN  [s2 EXCEPT !.cleanup[c].ctx = 0,
                   !.cleanup[c].pc =
                       IF c.by = "handleRetry" THEN "backoff" ELSE "done"]

\* cleanup, LiveVoiceInterface.tsx 172-174: close() of the output context is
\* awaited unless there is none, it is closed already, or close() throws
cleanupOutput(s, c) ==
    LET s1 == logStep(s, c, "outputContext")
        x == s.outputContext
    IN  IF x # 0 /\ s.outputContexts[x] # "closed"
           /\ "outputContext" \notin s.cleanup[c].faults
        THEN [s1 EXCEPT !.outputContexts[x] = "closing",
                        !.cleanup[c].pc = "outputClose",
                        !.cleanup[c].ctx = x]
        ELSE cleanupSession(s1, c)

\* cleanup, LiveVoiceInterface.tsx 169-171
cleanupInput(s, c) ==
    LET s1 == logStep(s, c, "inputContext")
        x == s.inputContext
    IN  IF x # 0 /\ s.inputContexts[x] # "closed"
           /\ "inputContext" \notin s.cleanup[c].faults
        THEN [s1 EXCEPT !.inputContexts[x] = "closing",
                        !.cleanup[c].pc = "inputClose",
                        !.cleanup[c].ctx = x]
        ELSE cleanupOutput(s1, c)

\* cleanup, LiveVoiceInterface.tsx 155-167, up to its first await: stopAudio,
\* the worklet node, the microphone tracks.  track.stop() is not inside a
\* try: when it throws, cleanup ends there and its promise rejects
cleanup(s, c, faults, closure) ==
    LET s0 == [s EXCEPT !.cleanup[c] =
                  [pc |-> "begin", ctx |-> 0, steps |-> <<"source">>,
                   faults |-> faults, closure |-> closure]]
        s1 == IF "source" \in faults
              THEN [stopAudio(s0) EXCEPT !.sources = s0.sources]
              ELSE stopAudio(s0)
        s2 == logStep(logStep(s1, c, "node"), c, "tracks")
    IN  IF s2.mediaStream = 0 THEN cleanupInput(s2, c)
        ELSE IF "tracks" \in faults
        THEN [s2 EXCEPT !.cleanup[c].pc = "failed"]
        ELSE cleanupInput([s2 EXCEPT !.tracks[s2.mediaStream] = "stopped",
                                      !.mediaStream = 0], c)

\* the input context has closed: cleanup goes on after its first await
cleanupInputClosed(s, c) ==
    cleanupOutput(
        [s EXCEPT !.inputContexts[s.cleanup[c].ctx] = "closed"], c)

\* the output context has closed: cleanup goes on after its second await
cleanupOutputClosed(s, c) ==
    cleanupSession(
        [s EXCEPT !.outputContexts[s.cleanup[c].ctx] = "closed"], c)

(***************************************************************************)
(* startSession and the callbacks of its session, LiveVoiceInterface.tsx    *)
(* 200-340, with its await points: resume() of the two contexts,            *)
(* getUserMedia, live.connect.                                              *)
(***************************************************************************)
ApiKeyNotConfiguredText == "API key not configured"
InvalidStateErrorText == "InvalidStateError"
TypeErrorText == "TypeError"
NotAllowedErrorText == "NotAllowedError"
ConnectFailedText == "connect failed"
MaximumRetriesText == "Maximum retries reached"

\* the catch block of startSession (334-339)
startSessionCatch(s, a, message) ==
    LET s1 == IF s.isMounted
              THEN [s EXCEPT !.status = "error", !.errorMessage = message]
              ELSE s
    IN  cleanup([s1 EXCEPT !.startSession[a] = StartSessionDone],
                [by |-> "catch", n |-> a], {}, NoClosure)

\* startSession up to its first await (200-219); closure is the status and
\* isMuted of the render that created the function
startSession(s, a, closure) ==
    IF ~s.isMounted THEN [s EXCEPT !.startSession[a] = StartSessionDone]
    ELSE LET s1 == [s EXCEPT !.status = "connecting", !.errorMessage = "",
                             !.closure[a] = closure]
         IN  IF ~apiKey
             THEN startSessionCatch(s1, a, ApiKeyNotConfiguredText)
             ELSE [s1 EXCEPT
                     !.inputContexts[a] = "running",
                     !.outputContexts[a] = "running",
                     !.inputContext = a, !.outputContext = a,
                     !.startSession[a] = [pc |-> "resumeInput", ctx |-> a]]

\* resume() of the input context settles (219-220): it rejects on a closed
\* context; then outputContextRef.current is read
resumeInputSettled(s, a) ==
    IF s.inputContexts[s.startSession[a].ctx] = "closed"
    THEN startSessionCatch(s, a, InvalidStateErrorText)
    ELSE IF s.outputContext = 0
    THEN startSessionCatch(s, a, TypeErrorText)
    ELSE [s EXCEPT !.startSession[a] =
                      [pc |-> "resumeOutput", ctx |-> s.outputContext]]

\* resume() of the output context settles (220-232)
resumeOutputSettled(s, a) ==
    IF s.outputContexts[s.startSession[a].ctx] = "closed"
    THEN startSessionCatch(s, a, InvalidStateErrorText)
    ELSE [s EXCEPT !.startSession[a] = [pc |-> "getUserMedia", ctx |-> 0]]

\* getUserMedia resolves (225-269): the stream is kept, the analyser is made
\* on inputContextRef.current, live.connect is called
getUserMediaResolved(s, a) ==
    LET s1 == [s EXCEPT !.tracks[a] = "live", !.mediaStream = a]
    IN  IF s1.inputContext = 0
        THEN startSessionCatch(s1, a, TypeErrorText)
        ELSE [s1 EXCEPT !.sessions[a] = "connecting",
                        !.startSession[a] = [pc |-> "connect", ctx |-> 0]]

\* getUserMedia rejects
getUserMediaRejected(s, a) == startSessionCatch(s, a, NotAllowedErrorText)

\* live.connect resolves (269-332): sessionRef.current = session
connectResolved(s, a) ==
    [s EXCEPT !.session = a, !.startSession[a] = StartSessionDone]

\* live.connect rejects
connectRejected(s, a) ==
    startSessionCatch([s EXCEPT !.sessions[a] = "closed"], a,
                      ConnectFailedText)

\* startAudioCapture (343-385), called with the closure of call a: a script
\* processor on the context in inputContextRef, held by no ref
startAudioCapture(s, a) ==
    IF s.inputContext = 0 \/ s.mediaStream = 0 \/ s.session = 0 THEN s
    ELSE [s EXCEPT !.processors =
                      @ \cup {[ctx |-> s.inputContext, closure |-> a]}]

\* callbacks.onopen (271-277)
onopen(s, a) ==
    LET s1 == [s EXCEPT !.sessions[a] = "open"]
    IN  IF ~s1.isMounted THEN s1
        ELSE startAudioCapture(
                [s1 EXCEPT !.status = "listening", !.retryCount = 0], a)

\* processor.onaudioprocess (356-380): the frame reaches the server when the
\* session in sessionRef is open
onaudioprocess(s, processor) ==
    IF \/ s.closure[processor.closure].isMuted
       \/ s.session = 0
       \/ s.closure[processor.closure].status = "speaking"
    THEN s
    ELSE IF s.sessions[s.session] = "open"
    THEN [s EXCEPT !.sent = @ + 1]
    ELSE s

\* retryCount >= 3 (389)
RetryLimit == 3

handleRetry_LateCap(s, r) ==
    IF s.retryCount > RetryLimit
    THEN [s EXCEPT !.errorMessage = MaximumRetriesText]
    ELSE cleanup([s EXCEPT !.retryCount = @ + 1],
                 [by |-> "handleRetry", n |-> r], {},
                 [status |-> s.status, isMuted |-> s.isMuted])

\* handleRetry (388-393) up to the first await of its cleanup
handleRetry(s, r) ==
    IF s.retryCount >= RetryLimit
    THEN [s EXCEPT !.errorMessage = MaximumRetriesText]
    ELSE cleanup([s EXCEPT !.retryCount = @ + 1],
                 [by |-> "handleRetry", n |-> r], {},
                 [status |-> s.status, isMuted |-> s.isMuted])

\* handleRetry after its delay (394-398): the call a of startSession
retryDelayOver(s, r, a) ==
    LET c == [by |-> "handleRetry", n |-> r]
        s1 == [s EXCEPT !.cleanup[c].pc = "done"]
    IN  IF s1.isMounted THEN startSession(s1, a, s.cleanup[c].closure)
        ELSE s1

\* handleClose (418-421) up to the first await of its cleanup
handleClose(s, faults) ==
    cleanup([s EXCEPT !.closeBegun = TRUE],
            [by |-> "handleClose", n |-> 0], faults, NoClosure)

\* the cleanup function of the lifecycle effect (410-414)
unmount(s) ==
    cleanup([s EXCEPT !.isMounted = FALSE, !.closeBegun = TRUE,
                      !.startSession[1] =
                          IF @.pc = "timer" THEN StartSessionDone ELSE @],
            [by |-> "unmount", n |-> 0], {}, NoClosure)

(***************************************************************************)
(* The component from its mount on: every handler, timer and promise of     *)
(* LiveVoiceInterface.tsx 200-421 as one action.                            *)
(***************************************************************************)
LiveStep(s) ==
    /\ SetLive(s)
    /\ UNCHANGED <<lv_variant, lv_frames, lv_last, live_earlier>>
    /\ UNCHANGED live_frame

\* the component after its first render and the lifecycle effect (402-409):
\* the timer of 200 ms is pending
InitLive ==
    /\ aiInstance = 0 /\ apiKey \in BOOLEAN /\ RbIdle /\ WrIdle /\ GenIdle
    /\ flt_idle /\ store_idle /\ ext_idle
    /\ lv_variant = "LiveVoiceInterface"
    /\ lv_status = InitialStatus(lv_variant) /\ lv_isMuted = FALSE
    /\ lv_errorMessage = "" /\ lv_retryCount = 0 /\ lv_isMountedRef = TRUE
    /\ lv_inputContextRef = 0 /\ lv_outputContextRef = 0
    /\ lv_mediaStreamRef = 0 /\ lv_sessionRef = 0
    /\ lv_inputContexts = [a \in Attempts |-> "none"]
    /\ lv_outputContexts = [a \in Attempts |-> "none"]
    /\ lv_tracks = [a \in Attempts |-> "none"]
    /\ lv_sessions = [a \in Attempts |-> "none"]
    /\ lv_processors = {}
    /\ lv_startSession = [a \in Attempts |->
                             IF a = 1 THEN [pc |-> "timer", ctx |-> 0]
                             ELSE NoStartSession]
    /\ lv_closure = [a \in Attempts |-> NoClosure]
    /\ lv_cleanup = [c \in CleanupCalls |-> NoCleanup]
    /\ lv_audioQueueRef = <<>> /\ lv_isPlayingRef = FALSE
    /\ lv_currentSourceRef = 0
    /\ lv_sources = [f \in Frames |-> NoSource]
    /\ lv_frames = 0 /\ lv_started = <<>>
    /\ lv_last = "mount" /\ lv_sent = 0 /\ lv_closeBegun = FALSE
    /\ lv_reads = 0 /\ lv_thens = 0

\* the calls of startSession not made yet, the retries not pressed yet
FreeAttempts == {a \in Attempts : lv_startSession[a].pc = "idle"}
FreeRetries ==
    {r \in 1..MaxRetryPresses :
        lv_cleanup[[by |-> "handleRetry", n |-> r]].pc = "idle"}
Least(S) == CHOOSE x \in S : \A y \in S : x <= y

\* the timer of the lifecycle effect fires (405-409)
LvTimer ==
    /\ lv_startSession[1].pc = "timer"
    /\ LiveStep(IF lv_isMountedRef
                THEN startSession(Live, 1,
                        [status |-> InitialStatus(lv_variant),
                         isMuted |-> FALSE])
                ELSE [Live EXCEPT !.startSession[1] = StartSessionDone])

LvResumeInput ==
    \E a \in Attempts :
        /\ lv_startSession[a].pc = "resumeInput"
        /\ LiveStep(resumeInputSettled(Live, a))

LvResumeOutput ==
    \E a \in Attempts :
        /\ lv_startSession[a].pc = "resumeOutput"
        /\ LiveStep(resumeOutputSettled(Live, a))

LvMicrophoneGranted ==
    \E a \in Attempts :
        /\ lv_startSession[a].pc = "getUserMedia"
        /\ LiveStep(getUserMediaResolved(Live, a))

LvMicrophoneDenied ==
    \E a \in Attempts :
        /\ lv_startSession[a].pc = "getUserMedia"
        /\ LiveStep(getUserMediaRejected(Live, a))

\* live.connect resolves, before or after the connection has opened
LvConnectResolved ==
    \E a \in Attempts :
        /\ lv_startSession[a].pc = "connect"
        /\ lv_sessions[a] \in {"connecting", "open"}
        /\ LiveStep(connectResolved(Live, a))

LvConnectRejected ==
    \E a \in Attempts :
        /\ lv_startSession[a].pc = "connect"
        /\ lv_sessions[a] = "connecting"
        /\ LiveStep(connectRejected(Live, a))

LvOnOpen ==
    \E a \in Attempts :
        /\ lv_sessions[a] = "connecting"
        /\ LiveStep(onopen(Live, a))

\* an audio-process event of a processor whose context has not closed
LvAudioProcess ==
    \E processor \in lv_processors :
        /\ lv_inputContexts[processor.ctx] \in {"running", "closing"}
        /\ lv_sent < MaxSends
        /\ LiveStep(onaudioprocess(Live, processor))

\* the mute button (569-578), enabled while listening or speaking
LvToggleMute ==
    /\ lv_isMountedRef
    /\ lv_status \in {"listening", "speaking"}
    /\ LiveStep([Live EXCEPT !.isMuted = ~@])

\* the Retry button (560-567), rendered while status is 'error'; handleRetry
\* makes its own test of retryCount, so the press is offered at the limit too
LvRetry ==
    /\ lv_isMountedRef
    /\ lv_status = "error"
    /\ lv_retryCount >= RetryLimit \/ FreeRetries # {}
    /\ LiveStep(handleRetry(Live, IF FreeRetries = {} THEN 0
                                  ELSE Least(FreeRetries)))

\* the delay of 1000 ms of a retry is over
LvRetryDelayOver ==
    \E r \in 1..MaxRetryPresses :
        /\ lv_cleanup[[by |-> "handleRetry", n |-> r]].pc = "backoff"
        /\ lv_isMountedRef => FreeAttempts # {}
        /\ LiveStep(retryDelayOver(Live, r,
                        IF FreeAttempts = {} THEN 0 ELSE Least(FreeAttempts)))

\* the close buttons call handleClose
LvClose ==
    /\ lv_isMountedRef
    /\ lv_cleanup[[by |-> "handleClose", n |-> 0]].pc = "idle"
    /\ LiveStep(handleClose(Live, {}))

\* the parent removes the component (after onClose, or on its own)
LvUnmount ==
    /\ lv_isMountedRef
    /\ LiveStep(unmount(Live))

\* close() of an input context resolves and the cleanup awaiting it goes on
LvInputClosed ==
    \E c \in CleanupCalls :
        /\ lv_cleanup[c].pc = "inputClose"
        /\ LiveStep(cleanupInputClosed(Live, c))

LvOutputClosed ==
    \E c \in CleanupCalls :
        /\ lv_cleanup[c].pc = "outputClose"
        /\ LiveStep(cleanupOutputClosed(Live, c))

\* the first session of the component, muting, capture and the close
NextLive ==
    \/ LvTimer
    \/ LvResumeInput
    \/ LvResumeOutput
    \/ LvMicrophoneGranted
    \/ LvMicrophoneDenied
    \/ LvConnectResolved
    \/ LvConnectRejected
    \/ LvOnOpen
    \/ LvOnClose
    \/ LvOnError
    \/ LvAudioProcess
    \/ LvToggleMute
    \/ LvClose
    \/ LvUnmount
    \/ LvInputClosed
    \/ LvOutputClosed

\* Retry while fewer than MaxLiveRetries presses were accepted
LvRetryBounded ==
    /\ Cardinality((1..MaxRetryPresses) \ FreeRetries) < MaxLiveRetries
    /\ LvRetry

\* the sessions of the component and its retries
NextLiveRetry ==
    \/ LvTimer
    \/ LvResumeInput
    \/ LvResumeOutput
    \/ LvMicrophoneGranted
    \/ LvMicrophoneDenied
    \/ LvConnectResolved
    \/ LvConnectRejected
    \/ LvOnOpen
    \/ LvOnClose
    \/ LvOnError
    \/ LvRetryBounded
    \/ LvRetryDelayOver
    \/ LvInputClosed
    \/ LvOutputClosed

\* the component of a user who never grants the microphone: every call of
\* startSession fails at getUserMedia
NextLiveDenied ==
    \/ LvTimer
    \/ LvResumeInput
    \/ LvResumeOutput
    \/ LvMicrophoneDenied
    \/ LvRetry
    \/ LvRetryDelayOver
    \/ LvUnmount
    \/ LvInputClosed
    \/ LvOutputClosed

SpecLive == InitLive /\ [][NextLive]_vars
SpecLiveRetry == InitLive /\ [][NextLiveRetry]_vars
SpecLiveDenied == InitLive /\ [][NextLiveDenied]_vars

(***************************************************************************)
(* The earlier component, LiveVoiceInterface.tsx 612-876.  One effect with  *)
(* no dependencies starts the session; its callbacks keep the isMuted of    *)
(* the first render.  The server sends no audio here.                       *)
(***************************************************************************)
EarlierStep(s, reads, thens) ==
    /\ SetLive(s)
    /\ lv_reads' = reads /\ lv_thens' = thens
    /\ UNCHANGED <<lv_variant, lv_frames, lv_last>>
    /\ UNCHANGED live_frame

\* the component after its first render and its effect (682-695):
\* startSession has made the contexts and awaits getUserMedia
InitEarlier ==
    /\ aiInstance = 0 /\ apiKey = TRUE /\ RbIdle /\ WrIdle /\ GenIdle
    /\ flt_idle /\ store_idle /\ ext_idle
    /\ lv_variant = "earlier"
    /\ lv_status = "connecting" /\ lv_isMuted = FALSE
    /\ lv_errorMessage = "" /\ lv_retryCount = 0 /\ lv_isMountedRef = TRUE
    /\ lv_inputContextRef = 1 /\ lv_outputContextRef = 1
    /\ lv_mediaStreamRef = 0 /\ lv_sessionRef = 0
    /\ lv_inputContexts = [a \in Attempts |-> IF a = 1 THEN "running" ELSE "none"]
    /\ lv_outputContexts = [a \in Attempts |-> IF a = 1 THEN "running" ELSE "none"]
    /\ lv_tracks = [a \in Attempts |-> "none"]
    /\ lv_sessions = [a \in Attempts |-> "none"]
    /\ lv_processors = {}
    /\ lv_startSession = [a \in Attempts |->
                             IF a = 1 THEN [pc |-> "getUserMedia", ctx |-> 0]
                             ELSE NoStartSession]
    /\ lv_closure = [a \in Attempts |->
                        IF a = 1
                        THEN [status |-> "connecting", isMuted |-> FALSE]
                        ELSE NoClosure]
    /\ lv_cleanup = [c \in CleanupCalls |-> NoCleanup]
    /\ lv_audioQueueRef = <<>> /\ lv_isPlayingRef = FALSE
    /\ lv_currentSourceRef = 0
    /\ lv_sources = [f \in Frames |-> NoSource]
    /\ lv_frames = 0 /\ lv_started = <<>>
    /\ lv_last = "mount" /\ lv_sent = 0 /\ lv_closeBegun = FALSE
    /\ lv_reads = 0 /\ lv_thens = 0

\* the catch block of startSession (802-805)
earlierCatch(s) ==
    [setStatus(s, "error") EXCEPT !.startSession[1] = StartSessionDone]

\* getUserMedia resolves (695-709): the stream is kept and live.connect is
\* called; nothing tests isMounted
EvMicrophoneGranted ==
    /\ lv_startSession[1].pc = "getUserMedia"
    /\ EarlierStep([Live EXCEPT !.tracks[1] = "live", !.mediaStream = 1,
                                !.sessions[1] = "connecting",
                                !.startSession[1] =
                                    [pc |-> "connect", ctx |-> 0]],
                   lv_reads, lv_thens)

EvMicrophoneDenied ==
    /\ lv_startSession[1].pc = "getUserMedia"
    /\ EarlierStep(earlierCatch(Live), lv_reads, lv_thens)

\* sessionPromise is fulfilled (800): sessionRef is set and the callbacks
\* waiting on the promise send their frames
EvConnectResolved ==
    /\ lv_startSession[1].pc = "connect"
    /\ lv_sessions[1] \in {"connecting", "open"}
    /\ EarlierStep([Live EXCEPT !.session = 1,
                                !.startSession[1] = StartSessionDone,
                                !.sent = IF lv_sessions[1] = "open"
                                         THEN @ + lv_thens ELSE @],
                   lv_reads, 0)

\* sessionPromise is rejected
EvConnectRejected ==
    /\ lv_startSession[1].pc = "connect"
    /\ lv_sessions[1] = "connecting"
    /\ EarlierStep(earlierCatch([Live EXCEPT !.sessions[1] = "closed"]),
                   lv_reads, 0)

\* callbacks.onopen (711-743): the script processor is made and connected
EvOnOpen ==
    /\ lv_sessions[1] = "connecting"
    /\ EarlierStep(
         LET s == [Live EXCEPT !.sessions[1] = "open"]
         IN  IF ~s.isMounted THEN s
             ELSE IF s.inputContext = 0 THEN setStatus(s, "connected")
             ELSE [setStatus(s, "connected") EXCEPT
                      !.processors = @ \cup {[ctx |-> s.inputContext,
                                              closure |-> 1]}],
         lv_reads, lv_thens)

\* processorRef.current.onaudioprocess (721-739): unless isMuted of the
\* closure is true, a FileReader starts to read the frame
EvAudioProcess ==
    \E processor \in lv_processors :
        /\ lv_inputContexts[processor.ctx] = "running"
        /\ lv_reads + lv_thens + lv_sent < MaxSends
        /\ EarlierStep(Live,
                       IF lv_closure[processor.closure].isMuted
                       THEN lv_reads ELSE lv_reads + 1,
                       lv_thens)

\* reader.onloadend (727-737): sessionPromise?.then(session => send)
EvReaderLoaded ==
    /\ lv_reads > 0
    /\ IF lv_startSession[1].pc = "connect"
       THEN EarlierStep(Live, lv_reads - 1, lv_thens + 1)
       ELSE EarlierStep([Live EXCEPT !.sent =
                            IF lv_sessionRef = 1 /\ lv_sessions[1] = "open"
                            THEN @ + 1 ELSE @],
                        lv_reads - 1, lv_thens)

\* toggleMute (822-824)
EvToggleMute ==
    /\ lv_isMountedRef
    /\ EarlierStep([Live EXCEPT !.isMuted = ~@], lv_reads, lv_thens)

\* callbacks.onerror (786-789)
EvOnError ==
    /\ lv_sessions[1] \in {"connecting", "open"}
    /\ EarlierStep(setStatus(Live, "error"), lv_reads, lv_thens)

\* callbacks.onclose (783-785): the server closes the connection
EvOnClose ==
    /\ lv_sessions[1] \in {"connecting", "open"}
    /\ EarlierStep([Live EXCEPT !.sessions[1] = "closed"], lv_reads, lv_thens)

\* the cleanup function of the effect (810-819), run when the parent removes
\* the component (the close buttons call onClose): the session is not closed
EvUnmount ==
    /\ lv_isMountedRef
    /\ EarlierStep(
         [Live EXCEPT
            !.isMounted = FALSE, !.closeBegun = TRUE,
            !.tracks = IF lv_mediaStreamRef # 0
                       THEN [@ EXCEPT ![lv_mediaStreamRef] = "stopped"] ELSE @,
            !.processors = {},
            !.inputContexts = IF lv_inputContextRef # 0
                              THEN [@ EXCEPT ![lv_inputContextRef] = "closed"]
                              ELSE @,
            !.outputContexts = IF lv_outputContextRef # 0
                               THEN [@ EXCEPT ![lv_outputContextRef] = "closed"]
                               ELSE @],
         lv_reads, lv_thens)

NextEarlier ==
    \/ EvMicrophoneGranted
    \/ EvMicrophoneDenied
    \/ EvConnectResolved
    \/ EvConnectRejected
    \/ EvOnOpen
    \/ EvAudioProcess
    \/ EvReaderLoaded
    \/ EvToggleMute
    \/ EvOnError
    \/ EvOnClose
    \/ EvUnmount

SpecLiveEarlier == InitEarlier /\ [][NextEarlier]_vars

(***************************************************************************)
(* The close of a component whose session is open, with a step of cleanup   *)
(* that throws; unnamed/part_002 runs its cleanup without awaiting.         *)
(***************************************************************************)
\* cleanup of unnamed/part_002 (103-129)
cleanupPart002(s, c, faults) ==
    LET s0 == [s EXCEPT !.cleanup[c] =
                  [pc |-> "begin", ctx |-> 0,
                   steps |-> <<"source", "node", "tracks">>,
                   faults |-> faults, closure |-> NoClosure]]
        s1 == IF "source" \in faults
              THEN [stopAudio(s0) EXCEPT !.sources = s0.sources]
              ELSE stopAudio(s0)
        s2 == IF "node" \in faults THEN s1
              ELSE [s1 EXCEPT !.processors = {}]
        x == s2.inputContext
        y == s2.outputContext
        z == s2.session
    IN  IF s2.mediaStream # 0 /\ "tracks" \in faults
        THEN [s2 EXCEPT !.cleanup[c].pc = "failed"]
        ELSE [s2 EXCEPT
                !.tracks = IF s2.mediaStream # 0
                           THEN [@ EXCEPT ![s2.mediaStream] = "stopped"]
                           ELSE @,
                !.inputContexts =
                    IF x # 0 /\ "inputContext" \notin faults
                    THEN [@ EXCEPT ![x] = "closed"] ELSE @,
                !.outputContexts =
                    IF y # 0 /\ "outputContext" \notin faults
                    THEN [@ EXCEPT ![y] = "closed"] ELSE @,
                !.sessions =
                    IF z # 0 /\ "session" \notin faults
                    THEN [@ EXCEPT ![z] = closeSession(@)] ELSE @,
                !.session = 0, !.inputContext = 0, !.outputContext = 0,
                !.cleanup[c].steps = CleanupSteps,
                !.cleanup[c].pc = "done"]

\* handleClose of unnamed/part_002 (300-303)
handleClosePart002(s, faults) ==
    cleanupPart002([s EXCEPT !.closeBegun = TRUE],
                   [by |-> "handleClose", n |-> 0], faults)

\* no step of cleanup throws, or exactly one does
Faults == {{}} \cup {{CleanupSteps[i]} : i \in 1..Len(CleanupSteps)}

\* a close button is pressed
TdClose ==
    /\ lv_isMountedRef
    /\ lv_cleanup[[by |-> "handleClose", n |-> 0]].pc = "idle"
    /\ \E faults \in Faults :
         LiveStep(IF lv_variant = "part_002"
                  THEN handleClosePart002(Live, faults)
                  ELSE handleClose(Live, faults))

NextTeardown ==
    \/ LvMessage
    \/ LvSourceFinishes
    \/ LvSourceEnded
    \/ TdClose
    \/ LvInputClosed
    \/ LvOutputClosed

SpecTeardown == InitPlayback /\ [][NextTeardown]_vars

(***************************************************************************)
(* Playback with the events of the audio sources delivered: a source that  *)
(* plays finishes, and its ended event reaches source.onended.  Messages   *)
(* of the server and the end of the connection stay free.                  *)
(***************************************************************************)
SpecPlaybackFair ==
    /\ InitPlayback
    /\ [][NextPlayback]_vars
    /\ WF_vars(LvSourceFinishes)
    /\ WF_vars(LvSourceEnded)

(***************************************************************************)
(* The page scraper, services/storageService.ts 195-592.  Date.now() is    *)
(* sc_now in milliseconds; a page's extracted data is the number of the    *)
(* call of scrapePage that fetched it.                                     *)
(***************************************************************************)
Urls == 1..MaxUrls
Scrapes == 1..MaxScrapes

\* const CACHE_DURATION_MS = 30 * 60 * 1000 (201)
CACHE_DURATION_MS == 30 * 60 * 1000
\* CORS_PROXIES has three entries (205-209); retries = 3 (216)
CORS_PROXIES_length == 3
FETCH_RETRIES == 3

\* what fetch() of one relay can end in, and the pages a relay can deliver:
\* extractDataFromHTML throws on the second
FetchErrors == {"HTTP 503", "Failed to fetch"}
Htmls == {"page", "unparsable"}
ExtractErrorText == "extract failed"

\* pageCache.get(url) of a url never stored is undefined
NoPage == [cached |-> FALSE, scrapedAt |-> 0, extractedData |-> 0]
NoScrapeResult == [none |-> TRUE]
\* a call of scrapePage: where it stands, its arguments, the attempt of
\* fetchWithProxy, the number of fetch() calls it made, the errors of its
\* attempts and what it returned
NoScrape ==
    [pc |-> "idle", url |-> 0, forceRefresh |-> FALSE, attempt |-> 0,
     fetches |-> 0, errors |-> <<>>, result |-> NoScrapeResult]

cacheHit_AtMost(cached, forceRefresh, now) ==
    /\ cached.cached
    /\ ~forceRefresh
    /\ now - cached.scrapedAt <= CACHE_DURATION_MS

\* the cache test of scrapePage (342)
cacheHit(cached, forceRefresh, now) ==
    /\ cached.cached
    /\ ~forceRefresh
    /\ now - cached.scrapedAt < CACHE_DURATION_MS

\* scrapePage up to its first await (339-355): the cached page, or the first
\* fetch of fetchWithProxy (216-229)
scrapePage(calls, cache, now, c, url, forceRefresh) ==
    LET cached == cache[url]
        call == [NoScrape EXCEPT !.url = url, !.forceRefresh = forceRefresh]
    IN  IF cacheHit(cached, forceRefresh, now)
        THEN [calls EXCEPT ![c] =
                [call EXCEPT !.pc = "done",
                             !.result = [success |-> TRUE,
                                         data |-> cached.extractedData,
                                         url |-> url,
                                         fromCache |-> "true",
                                         error |-> ""]]]
        ELSE [calls EXCEPT ![c] = [call EXCEPT !.pc = "fetch",
                                               !.fetches = 1]]

scrapeFailed_Rejects(call, message) ==
    [call EXCEPT !.pc = "rejected"]

\* the catch of scrapePage (373-380)
scrapeFailed(call, message) ==
    [call EXCEPT !.pc = "done",
                 !.result = [success |-> FALSE, data |-> 0,
                             url |-> call.url,
                             fromCache |-> "undefined",
                             error |-> message]]

\* the scraper with nothing cached and no call made
InitScraperVars ==
    /\ sc_now = 0
    /\ pageCache = [u \in Urls |-> NoPage]
    /\ currentProxyIndex = 0
    /\ sc_calls = [c \in Scrapes |-> NoScrape]

\* scrapePage(url, forceRefresh) is called
ScScrape ==
    \E c \in Scrapes, url \in Urls, forceRefresh \in BOOLEAN :
        /\ sc_calls[c].pc = "idle"
        /\ \A d \in Scrapes : d < c => sc_calls[d].pc # "idle"
        /\ sc_calls' = scrapePage(sc_calls, pageCache, sc_now, c, url,
                                  forceRefresh)
        /\ UNCHANGED <<sc_now, pageCache, currentProxyIndex>>

\* fetch resolves with an ok response and its text (230-240); scrapePage
\* extracts the data and stores the page (356-371)
ScFetchResolves ==
    \E c \in Scrapes, html \in Htmls :
        /\ sc_calls[c].pc = "fetch"
        /\ IF html = "unparsable"
           THEN /\ sc_calls' = [sc_calls EXCEPT
                                   ![c] = scrapeFailed(@, ExtractErrorText)]
                /\ UNCHANGED pageCache
           ELSE /\ pageCache' = [pageCache EXCEPT ![sc_calls[c].url] =
                                    [cached |-> TRUE, scrapedAt |-> sc_now,
                                     extractedData |-> c]]
                /\ sc_calls' = [sc_calls EXCEPT
                                   ![c].pc = "done",
                                   ![c].result =
                                       [success |-> TRUE, data |-> c,
                                        url |-> sc_calls[c].url,
                                        fromCache |-> "false",
                                        error |-> ""]]
        /\ UNCHANGED <<sc_now, currentProxyIndex>>

\* fetch rejects, is aborted after 10 s, or the response is not ok: the catch
\* of fetchWithProxy (241-252) and, after the last attempt, its throw (255)
ScFetchFails ==
    \E c \in Scrapes, error \in FetchErrors :
        /\ sc_calls[c].pc = "fetch"
        /\ currentProxyIndex' = (currentProxyIndex + 1) % CORS_PROXIES_length
        /\ sc_calls' = [sc_calls EXCEPT ![c] =
              LET call == [@ EXCEPT !.errors = Append(@, error)]
              IN  IF call.attempt < FETCH_RETRIES - 1
                  THEN [call EXCEPT !.pc = "wait"]
                  ELSE scrapeFailed(call, error)]
        /\ UNCHANGED <<sc_now, pageCache>>

\* the wait of 500 * (attempt + 1) ms is over: the next attempt fetches
ScWake ==
    \E c \in Scrapes :
        /\ sc_calls[c].pc = "wait"
        /\ sc_calls' = [sc_calls EXCEPT ![c].pc = "fetch",
                                        ![c].attempt = @ + 1,
                                        ![c].fetches = @ + 1]
        /\ UNCHANGED <<sc_now, pageCache, currentProxyIndex>>

\* the instants the clock is read at: just before, at and just after the
\* multiples of the cache duration
Instants ==
    {k * CACHE_DURATION_MS + j :
        k \in 0..(MaxTicks - 1), j \in {0, 1, CACHE_DURATION_MS - 1}}

\* time passes
ScTick ==
    \E t \in Instants :
        /\ t > sc_now
        /\ sc_now' = t
        /\ UNCHANGED <<pageCache, currentProxyIndex, sc_calls>>

sc_frame == <<rb_vars, wr_vars, aiInstance, apiKey, abort_vars, gen_vars,
              flt_vars, store_vars, live_vars, gs_vars, app_vars>>

InitScraper ==
    /\ aiInstance = 0 /\ apiKey = TRUE /\ RbIdle /\ WrIdle /\ GenIdle
    /\ flt_idle /\ store_idle /\ live_idle /\ gs_idle /\ app_idle
    /\ InitScraperVars

NextScraper ==
    \/ ScScrape /\ UNCHANGED sc_frame
    \/ ScFetchResolves /\ UNCHANGED sc_frame
    \/ ScFetchFails /\ UNCHANGED sc_frame
    \/ ScWake /\ UNCHANGED sc_frame
    \/ ScTick /\ UNCHANGED sc_frame

SpecScraper == InitScraper /\ [][NextScraper]_vars

(***************************************************************************)
(* generateAnswer of services/databaseService.ts (431-548): it scrapes the *)
(* pages of the query through searchSITWebsite (storageService.ts 519-553) *)
(* and then generates through retryWithBackoff.                            *)
(***************************************************************************)
UnableToFetchText ==
    "Unable to fetch data from SIT website. The website may be temporarily unavailable."
GsConfigurationText == "GEMINI_API_KEY is not configured"

RECURSIVE scrapeAll(_, _, _, _)
\* pagesToScrape.map(url => scrapePage(url)) (527): every call runs to its
\* first await, in the order of the pages; the page url is scraped by call url
scrapeAll(calls, cache, now, pages) ==
    IF pages = {} THEN calls
    ELSE LET url == CHOOSE u \in pages : \A v \in pages : u <= v
         IN  scrapeAll(scrapePage(calls, cache, now, url, url, FALSE),
                       cache, now, pages \ {url})

\* searchSITWebsite after Promise.all (530-552): the text formatted from the
\* data of the successful results, or the text that nothing could be fetched
searchResult(calls, pages) ==
    LET successfulResults == {u \in pages : calls[u].result.success}
    IN  IF successfulResults = {}
        THEN [content |-> UnableToFetchText, data |-> {}, citations |-> {},
              relevantPages |-> pages]
        ELSE [content |-> "formatted",
              data |-> {calls[u].result.data : u \in successfulResults},
              citations |-> successfulResults, relevantPages |-> pages]

\* the catch of generateAnswer (525-547)
gsCatch(message) ==
    [text |-> message, citations |-> {}, needsWebSearchApproval |-> FALSE,
     failed |-> TRUE]

\* the return of generateAnswer (518-523)
gsReturn(response, scrapedData) ==
    [text |-> response.text, citations |-> scrapedData.citations,
     needsWebSearchApproval |-> FALSE, failed |-> FALSE]

\* generateAnswer is called (431-435): searchSITWebsite starts the scrapes
GsStart ==
    \E pages \in SUBSET Urls :
        /\ pages # {}
        /\ gs_pc = "idle"
        /\ gs_pc' = "scraping"
        /\ gs_pages' = pages
        /\ sc_calls' = scrapeAll(sc_calls, pageCache, sc_now, pages)
        /\ UNCHANGED <<gs_scrapedData, gs_result, sc_now, pageCache,
                       currentProxyIndex, rb_vars, aiInstance>>

\* every scrape has returned: searchSITWebsite resolves, generateAnswer
\* builds its context, takes the client and enters retryWithBackoff (435-471)
GsSearched ==
    /\ gs_pc = "scraping"
    /\ \A u \in gs_pages : sc_calls[u].pc = "done"
    /\ gs_scrapedData' = searchResult(sc_calls, gs_pages)
    /\ IF aiInstance = 0 /\ ~apiKey
       THEN /\ gs_pc' = "done"
            /\ gs_result' = gsCatch(GsConfigurationText)
            /\ UNCHANGED <<rb_vars, aiInstance>>
       ELSE /\ gs_pc' = "generating"
            /\ aiInstance' = IF aiInstance = 0 THEN 1 ELSE aiInstance
            /\ rb_pc' = "call" /\ rb_maxRetries' = MAX_RETRIES
            /\ rb_initialBackoff' = INITIAL_BACKOFF_MS
            /\ rb_attempt' = 0 /\ rb_lastError' = NoError
            /\ rb_result' = NoResponse /\ rb_thrown' = NoError
            /\ rb_calls' = 0 /\ rb_outcomes' = <<>> /\ rb_delays' = <<>>
            /\ UNCHANGED gs_result
    /\ UNCHANGED <<gs_pages, sc_vars>>

\* retryWithBackoff invokes ai.models.generateContent (474)
GsInvoke ==
    /\ gs_pc = "generating"
    /\ RbInvokeStep
    /\ UNCHANGED <<gs_vars, sc_vars>>

\* the generation call resolves
GsApiResolve ==
    \E response \in {RespAnswer, RespEmpty} :
        /\ gs_pc = "generating"
        /\ RbResolveStep(response)
        /\ gs_pc' = "done"
        /\ gs_result' = gsReturn(response, gs_scrapedData)
        /\ UNCHANGED <<gs_pages, gs_scrapedData, sc_vars>>

\* what the generation call fails with in this specification
GsErrors == {ErrServer, ErrBadRequest}

\* the generation call rejects: retryWithBackoff waits or throws
GsApiReject ==
    \E error \in GsErrors :
        /\ gs_pc = "generating"
        /\ RbRejectStep(error, 0)
        /\ IF rb_pc' = "threw"
           THEN gs_pc' = "done" /\ gs_result' = gsCatch(rb_thrown'.message)
           ELSE UNCHANGED <<gs_pc, gs_result>>
        /\ UNCHANGED <<gs_pages, gs_scrapedData, sc_vars>>

\* the timer of retryWithBackoff fires
GsWake ==
    /\ gs_pc = "generating"
    /\ RbWakeStep
    /\ IF rb_pc' = "threw"
       THEN gs_pc' = "done" /\ gs_result' = gsCatch(rb_thrown'.message)
       ELSE UNCHANGED <<gs_pc, gs_result>>
    /\ UNCHANGED <<gs_pages, gs_scrapedData, sc_vars>>

gs_frame == <<wr_vars, apiKey, abort_vars, gen_vars, flt_vars, store_vars,
              live_vars, app_vars>>

\* pages stored at time 0 or never, read while fresh or once expired
InitScrapeAnswer ==
    /\ aiInstance = 0 /\ apiKey \in BOOLEAN /\ RbIdle /\ WrIdle /\ GenIdle
    /\ flt_idle /\ store_idle /\ live_idle /\ gs_idle /\ app_idle
    /\ sc_now \in {1, CACHE_DURATION_MS}
    /\ pageCache \in [Urls -> {NoPage, [cached |-> TRUE, scrapedAt |-> 0,
                                        extractedData |-> 0]}]
    /\ currentProxyIndex = 0
    /\ sc_calls = [c \in Scrapes |-> NoScrape]

NextScrapeAnswer ==
    \/ GsStart /\ UNCHANGED gs_frame
    \/ ScFetchResolves /\ UNCHANGED <<gs_frame, gs_vars, rb_vars, aiInstance>>
    \/ ScFetchFails /\ UNCHANGED <<gs_frame, gs_vars, rb_vars, aiInstance>>
    \/ ScWake /\ UNCHANGED <<gs_frame, gs_vars, rb_vars, aiInstance>>
    \/ GsSearched /\ UNCHANGED gs_frame
    \/ GsInvoke /\ UNCHANGED gs_frame
    \/ GsApiResolve /\ UNCHANGED gs_frame
    \/ GsApiReject /\ UNCHANGED gs_frame
    \/ GsWake /\ UNCHANGED gs_frame

SpecScrapeAnswer == InitScrapeAnswer /\ [][NextScrapeAnswer]_vars

(***************************************************************************)
(* The App component: threads, handleSendMessage and handleStopGeneration  *)
(* (unnamed/part_006 92-212), the variant whose handleSendMessage races    *)
(* generateAnswer against a 60 s timer (unnamed/part_007 460-565), and     *)
(* StorageService.saveThread (services/storageService.ts 41-50).           *)
(* generateAnswer is the one of services/geminiService.ts: it creates the  *)
(* module's abort controller, builds `contents`, and never rejects (its    *)
(* catch block returns a result), so the catch block of part_006 191-206   *)
(* is not entered; updatedAt and timestamp are not modelled.               *)
(***************************************************************************)
Sends == 1..MaxMessages

Queries == {"fees", "hostel"}

AnswerTexts == {"answer", "An error occurred while processing your request."}

CancelledText == "Request was cancelled."

TimedOutText == "Request Timed Out"

GenericErrorText == "Error: Request timed out"

NoThread == [id |-> 0, title |-> "", messages |-> <<>>]

NoSend ==
    [pc |-> "none", threadId |-> 0, content |-> "", currentThread |-> NoThread,
     updatedMessages |-> <<>>, updatedThread |-> NoThread, contents |-> <<>>,
     controller |-> 0, generating |-> FALSE, timer |-> "none"]

\* the title of a thread the component creates (part_006 95, part_007 473)
newTitle(variant) ==
    IF variant = "part_006" THEN "New Search" ELSE "New Conversation"

\* threads.find(t => t.id === threadId), NoThread for undefined
findThread(ths, threadId) ==
    IF \E i \in DOMAIN ths : ths[i].id = threadId
    THEN ths[CHOOSE i \in DOMAIN ths :
                 /\ ths[i].id = threadId
                 /\ \A j \in DOMAIN ths : ths[j].id = threadId => i <= j]
    ELSE NoThread

\* prev.map(t => t.id === threadId ? thread : t)
mapThread(prev, threadId, thread) ==
    [i \in DOMAIN prev |-> IF prev[i].id = threadId THEN thread ELSE prev[i]]

\* StorageService.saveThread (storageService.ts 41-50): the stored snapshot
\* of the thread is replaced as a whole, or the thread is put in front
saveThread(stored, thread) ==
    IF \E i \in DOMAIN stored : stored[i].id = thread.id
    THEN LET index == CHOOSE i \in DOMAIN stored :
                          /\ stored[i].id = thread.id
                          /\ \A j \in DOMAIN stored :
                                 stored[j].id = thread.id => i <= j
         IN  [stored EXCEPT ![index] = thread]
    ELSE <<thread>> \o stored

\* currentMessages (part_006 214)
currentMessages == findThread(threads, currentThreadId).messages

\* the messages a thread loaded at mount holds
OldMessages(n) ==
    [i \in 1..n |-> [id |-> <<0, i>>,
                     role |-> IF i % 2 = 1 THEN "user" ELSE "model",
                     content |-> "earlier"]]

userMsg(c, content) == [id |-> <<c, 1>>, role |-> "user", content |-> content]

botMsg(c, text) == [id |-> <<c, 2>>, role |-> "model", content |-> text]

\* updatedMessages.map(m => ({ role: m.role, content: m.content }))
historyOf(messages) ==
    [i \in DOMAIN messages |->
        [role |-> messages[i].role, content |-> messages[i].content]]

\* the content of the message the catch block of part_007 adds (547-549)
errorContent_Generic(message) == GenericErrorText

errorContent(message) ==
    IF message = "Request timed out" THEN TimedOutText ELSE GenericErrorText

\* the next call of handleSendMessage
nextSend == CHOOSE c \in Sends :
                /\ hs_calls[c].pc = "none"
                /\ \A d \in Sends : hs_calls[d].pc = "none" => c <= d

\* what the user interface lets through: handleSubmit returns while isLoading
\* (ChatInterface.tsx 153); the three suggestion buttons, shown while the
\* current thread has no message, call onSendMessage directly (350)
maySubmit == ~isLoading \/ currentMessages = <<>>

\* handleSendMessage up to its first await (part_006 123-167, part_007
\* 460-512), generateAnswer up to its await included (geminiService.ts
\* 120-164)
HandleSendMessage ==
    \E content \in Queries :
        /\ \E c \in Sends : hs_calls[c].pc = "none"
        /\ maySubmit
        /\ LET c == nextSend
               found == findThread(threads, currentThreadId)
               create == currentThreadId = 0 \/ found = NoThread
               newThread == [id |-> Len(threads) + 1,
                             title |-> newTitle(app_variant),
                             messages |-> <<>>]
               currentThread == IF create THEN newThread ELSE found
               threadId == currentThread.id
               updatedMessages ==
                   Append(currentThread.messages, userMsg(c, content))
               updatedThread ==
                   [currentThread EXCEPT !.messages = updatedMessages]
               withNew == IF create THEN <<newThread>> \o threads ELSE threads
           IN  /\ ~create \/ Len(threads) < MaxThreads
               /\ threads' = mapThread(withNew, threadId, updatedThread)
               /\ currentThreadId' = threadId
               /\ storedThreads' = IF create
                                   THEN saveThread(storedThreads, newThread)
                                   ELSE storedThreads
               /\ isLoading' = TRUE
               /\ canStop' = (app_variant = "part_006")
               /\ controllersCreated' = controllersCreated + 1
               /\ currentAbortController' = controllersCreated + 1
               /\ hs_calls' =
                    [hs_calls EXCEPT ![c] =
                        [pc |-> "generating", threadId |-> threadId,
                         content |-> content, currentThread |-> currentThread,
                         updatedMessages |-> updatedMessages,
                         updatedThread |-> updatedThread,
                         contents |->
                             contentsOf(content, historyOf(updatedMessages)),
                         controller |-> controllersCreated + 1,
                         generating |-> TRUE,
                         timer |-> IF app_variant = "part_007"
                                   THEN "armed" ELSE "none"]]
        /\ UNCHANGED <<app_variant, abortedSignals>>

\* handleStopGeneration (part_006 116-121) with cancelCurrentRequest
\* (geminiService.ts 35-40); the Stop button is rendered while isLoading and
\* canStop (ChatInterface.tsx 446-459)
HandleStopGeneration ==
    /\ app_variant = "part_006"
    /\ isLoading /\ canStop
    /\ IF currentAbortController # 0
       THEN /\ abortedSignals' = abortedSignals \cup {currentAbortController}
            /\ currentAbortController' = 0
       ELSE UNCHANGED <<abortedSignals, currentAbortController>>
    /\ isLoading' = FALSE
    /\ canStop' = FALSE
    /\ UNCHANGED <<app_variant, threads, storedThreads, currentThreadId,
                   hs_calls, controllersCreated>>

\* setThreads and saveThread of the final thread, and the finally block
\* (part_006 188-189 and 207-211, part_007 537-538, 559-564)
commit(c, thread) ==
    /\ threads' = mapThread(threads, hs_calls[c].threadId, thread)
    /\ storedThreads' = saveThread(storedThreads, thread)
    /\ isLoading' = FALSE
    /\ canStop' = IF app_variant = "part_006" THEN FALSE ELSE canStop

\* generateAnswer of call c settles: the test of line 176, the result, the
\* finally block (242-244); then handleSendMessage goes on, unless the timer
\* has already rejected the race (part_006 169-189, part_007 514-538)
GenerateAnswerSettles(c) ==
    \E answer \in AnswerTexts :
        /\ hs_calls[c].generating
        /\ currentAbortController' = 0
        /\ LET text == IF /\ currentAbortController # 0
                          /\ currentAbortController \in abortedSignals
                       THEN CancelledText ELSE answer
               finalMessages ==
                   Append(hs_calls[c].updatedMessages, botMsg(c, text))
               updatedThread ==
                   [hs_calls[c].updatedThread EXCEPT !.messages = finalMessages]
           IN  IF hs_calls[c].pc # "generating"
               THEN /\ hs_calls' = [hs_calls EXCEPT ![c].generating = FALSE]
                    /\ UNCHANGED <<threads, storedThreads, isLoading, canStop>>
               ELSE IF Len(finalMessages) <= 2
               THEN /\ hs_calls' = [hs_calls EXCEPT
                                       ![c].generating = FALSE,
                                       ![c].pc = "title",
                                       ![c].updatedThread = updatedThread]
                    /\ UNCHANGED <<threads, storedThreads, isLoading, canStop>>
               ELSE /\ hs_calls' = [hs_calls EXCEPT
                                       ![c].generating = FALSE,
                                       ![c].pc = "done",
                                       ![c].updatedThread = updatedThread]
                    /\ commit(c, updatedThread)
        /\ UNCHANGED <<app_variant, currentThreadId, abortedSignals,
                       controllersCreated>>

\* generateChatTitle settles (part_006 181-189, part_007 527-538): the title
\* is set when it resolved
TitleSettles(c) ==
    \E resolved \in BOOLEAN :
        /\ hs_calls[c].pc = "title"
        /\ LET updatedThread ==
                   IF resolved
                   THEN [hs_calls[c].updatedThread EXCEPT !.title = "title"]
                   ELSE hs_calls[c].updatedThread
           IN  /\ hs_calls' = [hs_calls EXCEPT
                                  ![c].pc = "done",
                                  ![c].updatedThread = updatedThread]
               /\ commit(c, updatedThread)
        /\ UNCHANGED <<app_variant, currentThreadId, abort_vars>>

\* the 60 s timer of call c fires (part_007 500-502): when the race is still
\* pending it rejects and the catch block runs (540-564)
TimerFires(c) ==
    /\ hs_calls[c].timer = "armed"
    /\ IF hs_calls[c].pc = "generating"
       THEN LET currentThread == hs_calls[c].currentThread
                errorMsg == botMsg(c, errorContent("Request timed out"))
                errorThread ==
                    [currentThread EXCEPT
                        !.messages = Append(currentThread.messages, errorMsg)]
            IN  /\ hs_calls' = [hs_calls EXCEPT ![c].timer = "fired",
                                                ![c].pc = "done",
                                                ![c].updatedThread = errorThread]
                /\ commit(c, errorThread)
       ELSE /\ hs_calls' = [hs_calls EXCEPT ![c].timer = "late"]
            /\ UNCHANGED <<threads, storedThreads, isLoading, canStop>>
    /\ UNCHANGED <<app_variant, currentThreadId, abort_vars>>

\* createNewThread (part_006 92-103)
CreateNewThread ==
    /\ Len(threads) < MaxThreads
    /\ LET newThread == [id |-> Len(threads) + 1,
                         title |-> newTitle(app_variant), messages |-> <<>>]
       IN  /\ threads' = <<newThread>> \o threads
           /\ currentThreadId' = newThread.id
           /\ storedThreads' = saveThread(storedThreads, newThread)
    /\ UNCHANGED <<app_variant, isLoading, canStop, hs_calls, abort_vars>>

app_frame == <<rb_vars, wr_vars, aiInstance, apiKey, gen_vars, flt_vars,
               store_vars, live_vars, sc_vars, gs_vars>>

\* after the mount effect (part_006 66-83): the threads of localStorage are
\* loaded and the first one is current
InitApp ==
    /\ aiInstance = 0 /\ apiKey = TRUE /\ RbIdle /\ WrIdle /\ GenIdle
    /\ flt_idle /\ store_idle /\ live_idle /\ sc_idle /\ gs_idle
    /\ app_variant \in {"part_006", "part_007"}
    /\ \E n \in {0, HISTORY_LIMIT - 1, HISTORY_LIMIT + 1} :
           storedThreads \in
               {<<>>, <<[id |-> 1, title |-> "title",
                         messages |-> OldMessages(n)]>>}
    /\ threads = storedThreads
    /\ currentThreadId = IF Len(threads) > 0 THEN threads[1].id ELSE 0
    /\ isLoading = FALSE /\ canStop = FALSE
    /\ hs_calls = [c \in Sends |-> NoSend]

\* some armed timer fires
SomeTimerFires == \E c \in Sends : TimerFires(c) /\ UNCHANGED app_frame

NextApp ==
    \/ HandleSendMessage /\ UNCHANGED app_frame
    \/ HandleStopGeneration /\ UNCHANGED app_frame
    \/ \E c \in Sends : GenerateAnswerSettles(c) /\ UNCHANGED app_frame
    \/ \E c \in Sends : TitleSettles(c) /\ UNCHANGED app_frame
    \/ SomeTimerFires
    \/ CreateNewThread /\ UNCHANGED app_frame

SpecApp == InitApp /\ [][NextApp]_vars

\* every timer of setTimeout fires, each at most once; generateAnswer and
\* generateChatTitle may stay pending for ever
SpecAppFair == SpecApp /\ WF_vars(SomeTimerFires)

(***************************************************************************)
(* Claims about the live voice component.                                   *)
(***************************************************************************)
\* the sources that are sounding on the output
PlayingSources == {f \in Frames : lv_sources[f].state = "playing"}

IsIncreasing(s) == \A i, j \in 1..Len(s) : i < j => s[i] < s[j]

\* the step starts the playback of frame f
StartsPlaying(f) ==
    lv_sources[f].state = "none" /\ lv_sources'[f].state = "playing"

\* C11: audio frames are played in the order they arrived, and the playback
\* of a frame starts no earlier than the end of every frame that arrived
\* before it: in the step that starts a frame, no earlier frame is sounding
C11_PlaybackOrder ==
    [][/\ IsIncreasing(lv_started')
       /\ \A f \in Frames :
            StartsPlaying(f) =>
                \A g \in Frames : g < f => lv_sources'[g].state # "playing"]_vars

\* C12: at most one decoded buffer is playing in every reachable state
C12_OnePlaying == Cardinality(PlayingSources) <= 1

\* C13: after an interruption message has been processed the queue is empty,
\* no buffer continues playing and status is 'listening'
C13_AfterInterruption ==
    lv_last = "interrupted" =>
        /\ lv_audioQueueRef = <<>>
        /\ PlayingSources = {}
        /\ lv_status = "listening"

\* C14: while isMuted is true a captured frame is dropped: it is neither
\* handed to the session nor queued for it; and a press of the mute button
\* changes neither the sessions nor status
C14_MutedDropsFrames ==
    [][/\ lv_isMuted => lv_reads' <= lv_reads
       /\ lv_isMuted /\ lv_variant # "earlier" => lv_sent' = lv_sent
       /\ lv_isMuted' # lv_isMuted =>
            /\ lv_sessions' = lv_sessions
            /\ lv_sessionRef' = lv_sessionRef
            /\ lv_status' = lv_status]_vars

\* C15: once handleClose or the unmount has started the cleanup, no audio
\* frame is handed to the session any more
C15_NoSendAfterClose ==
    [][lv_closeBegun => lv_sent' = lv_sent]_vars

IsPrefix(s, t) == Len(s) <= Len(t) /\ \A i \in 1..Len(s) : s[i] = t[i]

\* the calls of cleanup that have returned or thrown
EndedCleanups ==
    {c \in CleanupCalls : lv_cleanup[c].pc \in {"done", "backoff", "failed"}}

\* C16: cleanup goes through its steps in the order audio nodes, microphone
\* tracks, input and output context, session, and a step that throws does
\* not keep cleanup from the steps after it
C16_TeardownOrder ==
    /\ \A c \in CleanupCalls : IsPrefix(lv_cleanup[c].steps, CleanupSteps)
    /\ \A c \in EndedCleanups : lv_cleanup[c].steps = CleanupSteps

\* the sessions that are open or still connecting
LiveSessions == {a \in Attempts : lv_sessions[a] \in {"connecting", "open"}}

\* C17: at most one streaming session is open or connecting at any time
C17_OneSession == Cardinality(LiveSessions) <= 1

\* the close is complete: the cleanup of the unmount has run to its end
\* (handleClose ends with onClose(), on which ChatInterface removes the
\* component, so a close by the button ends in the unmount as well)
CloseCompleted ==
    /\ ~lv_isMountedRef
    /\ lv_cleanup[[by |-> "unmount", n |-> 0]].pc = "done"

\* no call of startSession and no cleanup is waiting for anything
NothingPending ==
    /\ \A a \in Attempts : lv_startSession[a].pc \in {"idle", "done"}
    /\ \A c \in CleanupCalls : lv_cleanup[c].pc \in {"idle", "done", "failed"}

\* C18: once handleClose or the unmount has completed and nothing is pending,
\* no session is open or connecting, no microphone track is live and no audio
\* context is running
C18_CloseReleases ==
    (CloseCompleted /\ NothingPending) =>
        /\ LiveSessions = {}
        /\ \A a \in Attempts : lv_tracks[a] # "live"
        /\ \A a \in Attempts : lv_inputContexts[a] # "running"
        /\ \A a \in Attempts : lv_outputContexts[a] # "running"

\* the presses of Retry that handleRetry accepted
RetryCall(r) == [by |-> "handleRetry", n |-> r]
AcceptedRetries ==
    {r \in 1..MaxRetryPresses : lv_cleanup[RetryCall(r)].pc # "idle"}
NoSessionOpened == \A a \in Attempts : lv_sessions[a] = "none"

\* handleRetry at the cap: the step that puts up the text of the cap
ReportsMaximum ==
    /\ lv_errorMessage # MaximumRetriesText
    /\ lv_errorMessage' = MaximumRetriesText

\* C19: while no session has opened at most 3 presses of Retry are accepted;
\* at the cap handleRetry accepts nothing and changes the error text only;
\* a call of startSession after the first is made in the step that ends the
\* delay of a retry whose cleanup ran through all of its steps
C19_BoundedRetries ==
    [][ /\ NoSessionOpened' =>
               /\ Cardinality(AcceptedRetries') <= RetryLimit
               /\ lv_retryCount' <= RetryLimit
        /\ lv_retryCount >= RetryLimit => AcceptedRetries' = AcceptedRetries
        /\ ReportsMaximum =>
               /\ lv_retryCount >= RetryLimit
               /\ UNCHANGED <<lv_status, lv_retryCount, lv_startSession,
                              lv_cleanup, lv_sessions, lv_sessionRef,
                              lv_tracks, lv_inputContexts,
                              lv_outputContexts>>
        /\ \A a \in Attempts \ {1} :
               (lv_startSession[a].pc = "idle"
                   /\ lv_startSession'[a].pc # "idle") =>
                   \E r \in 1..MaxRetryPresses :
                       /\ lv_cleanup[RetryCall(r)].pc = "backoff"
                       /\ lv_cleanup[RetryCall(r)].steps = CleanupSteps
                       /\ lv_cleanup'[RetryCall(r)].pc = "done"
      ]_vars

\* three retries ran, each started a call of startSession, and a fourth
\* press was answered with the text of the cap
C19_Witness ==
    /\ lv_retryCount = RetryLimit
    /\ Cardinality(AcceptedRetries) = RetryLimit
    /\ \A r \in AcceptedRetries : lv_cleanup[RetryCall(r)].pc = "done"
    /\ \A a \in 2..(RetryLimit + 1) : lv_startSession[a].pc = "done"
    /\ lv_errorMessage = MaximumRetriesText

\* the moves of the status that the status machine has
StatusMoves ==
    {<<"initializing", "connecting">>, <<"connecting", "listening">>,
     <<"listening", "speaking">>, <<"speaking", "listening">>,
     <<"error", "connecting">>}

\* C20: the status changes along initializing -> connecting -> listening <->
\* speaking, to error from any status, and from error to connecting only; no
\* step takes it from error to speaking or listening
C20_StatusMachine ==
    [][ \/ lv_status' = lv_status
        \/ lv_status' = "error"
        \/ <<lv_status, lv_status'>> \in StatusMoves ]_vars

\* the status is speaking, the queue is empty and every source has ended
Drained ==
    /\ lv_status = "speaking"
    /\ lv_audioQueueRef = <<>>
    /\ \A f \in Frames : lv_sources[f].state \in {"none", "done"}

\* C21: when the session is speaking and the playback queue has drained, the
\* status eventually leaves speaking (to listening, or to error when the
\* connection fails)
C21_ReturnToListening == Drained ~> (lv_status # "speaking")

\* the step is the call c of scrapePage
Called(c) == sc_calls[c].pc = "idle" /\ sc_calls'[c].pc # "idle"
\* the step is the return of call c after fetching
Fetched(c) == sc_calls[c].pc = "fetch" /\ sc_calls'[c].pc = "done"

\* the page of url was stored less than 30 minutes ago
StoredWithinTTL(url) ==
    /\ pageCache[url].cached
    /\ sc_now - pageCache[url].scrapedAt < CACHE_DURATION_MS

\* a call of scrapePage for a page stored within the last 30 minutes, without
\* forceRefresh, returns the stored data with fromCache: true and fetches
\* nothing; any other call fetches
CacheDecides ==
    \A c \in Scrapes :
        Called(c) =>
            LET call == sc_calls'[c]
            IN  IF StoredWithinTTL(call.url) /\ ~call.forceRefresh
                THEN /\ call.pc = "done" /\ call.fetches = 0
                     /\ call.result.success
                     /\ call.result.fromCache = "true"
                     /\ call.result.data = pageCache[call.url].extractedData
                     /\ UNCHANGED pageCache
                ELSE call.pc = "fetch" /\ call.fetches = 1

\* C22 (as stated): the cache decides as above, and every call that fetched
\* returns fromCache: false
C22_CacheTTL_AsStated ==
    [][ /\ CacheDecides
        /\ \A c \in Scrapes :
               Fetched(c) => sc_calls'[c].result.fromCache = "false" ]_vars

\* C22: the cache decides as above; a call that fetched returns fromCache:
\* false when the fetch and the extraction succeed, and otherwise success:
\* false without a fromCache field
C22_CacheTTL ==
    [][ /\ CacheDecides
        /\ \A c \in Scrapes :
               Fetched(c) =>
                   LET r == sc_calls'[c].result
                   IN  /\ r.success => r.fromCache = "false"
                       /\ ~r.success => r.fromCache = "undefined" ]_vars

\* a page was fetched and stored, and a later call for it was answered from
\* the cache at a later time
C22_Witness ==
    \E c, d \in Scrapes :
        /\ c < d
        /\ sc_calls[c].pc = "done" /\ sc_calls[d].pc = "done"
        /\ sc_calls[c].url = sc_calls[d].url
        /\ sc_calls[c].result.fromCache = "false"
        /\ sc_calls[d].result.fromCache = "true"
        /\ sc_calls[d].result.data = c
        /\ sc_now > pageCache[sc_calls[c].url].scrapedAt

\* the step ends the fetching of call c (a return or a rejection)
FetchEnds(c) == sc_calls[c].pc = "fetch" /\ sc_calls'[c].pc \notin {"fetch", "wait"}

\* a call of scrapePage whose relays all failed or whose page could not be
\* extracted returns success: false, data null and the last error, and the
\* cache stays as it was
FailureIsAResult ==
    \A c \in Scrapes :
        (FetchEnds(c) /\ pageCache' = pageCache) =>
            LET call == sc_calls'[c]
            IN  /\ call.pc = "done"
                /\ ~call.result.success
                /\ call.result.data = 0
                /\ call.result.url = call.url
                /\ \/ /\ call.fetches = FETCH_RETRIES
                      /\ Len(call.errors) = FETCH_RETRIES
                      /\ call.result.error = call.errors[FETCH_RETRIES]
                   \/ call.result.error = ExtractErrorText

\* the only step that changes the cache is a successful fetch of the page
OnlySuccessStores ==
    \A u \in Urls :
        pageCache'[u] # pageCache[u] =>
            \E c \in Scrapes :
                /\ FetchEnds(c) /\ sc_calls'[c].url = u
                /\ sc_calls'[c].result.success

\* the scrapes of generateAnswer all failed
NothingScraped ==
    \A u \in gs_pages : sc_calls[u].pc = "done" /\ ~sc_calls[u].result.success

\* C23: a scrape that fails returns success: false with data null and the last
\* error and leaves the cache unchanged; when all scrapes of generateAnswer
\* have failed, generateAnswer (with the API key configured) goes on to the
\* generation call, and the answer of that call is what it returns
C23_ScraperFailureNotFatal ==
    [][ /\ FailureIsAResult
        /\ OnlySuccessStores
        /\ (gs_pc = "scraping" /\ gs_pc' # "scraping" /\ NothingScraped) =>
               /\ gs_scrapedData'.content = UnableToFetchText
               /\ apiKey => (gs_pc' = "generating" /\ rb_pc' = "call")
        /\ (gs_pc = "generating" /\ rb_pc' = "returned") =>
               /\ gs_pc' = "done"
               /\ ~gs_result'.failed
               /\ gs_result'.text = rb_result'.text ]_vars

\* generateAnswer returned the answer of the generation call although the
\* relays failed three times for one page and the other could not be
\* extracted, and the stale page is still in the cache
C23_Witness ==
    /\ gs_pc = "done" /\ ~gs_result.failed
    /\ gs_scrapedData.content = UnableToFetchText
    /\ \E u, v \in gs_pages :
           /\ sc_calls[u].fetches = FETCH_RETRIES
           /\ Len(sc_calls[u].errors) = FETCH_RETRIES
           /\ sc_calls[u].result.error \in FetchErrors
           /\ sc_calls[v].result.error = ExtractErrorText
           /\ pageCache[u].cached
           /\ sc_calls[u].errors[1] # sc_calls[u].errors[FETCH_RETRIES]

RECURSIVE isSubsequence(_, _)
\* the messages of `earlier` all occur in `later`, in the same relative order
isSubsequence(earlier, later) ==
    IF earlier = <<>> THEN TRUE
    ELSE IF later = <<>> THEN FALSE
    ELSE IF Head(earlier) = Head(later)
    THEN isSubsequence(Tail(earlier), Tail(later))
    ELSE isSubsequence(earlier, Tail(later))

\* every thread of the list `before` keeps its messages in the list `after`
KeepsMessages(before, after) ==
    \A i \in DOMAIN before :
        isSubsequence(before[i].messages,
                      findThread(after, before[i].id).messages)

\* C24: no step of the App component removes or reorders a message of a
\* thread, in the state `threads` or in the threads kept in localStorage
C24_AppendOnly ==
    [][ /\ KeepsMessages(threads, threads')
        /\ KeepsMessages(storedThreads, storedThreads') ]_vars

\* the message the catch block adds for call c when the timer rejected
TimedOutMsg(c) == botMsg(c, TimedOutText)

\* the thread of call c ends with the message, in `threads` and in
\* localStorage
EndsWithTimedOut(c) ==
    LET inMemory == findThread(threads, hs_calls[c].threadId).messages
        persisted == findThread(storedThreads, hs_calls[c].threadId).messages
    IN  /\ inMemory # <<>> /\ inMemory[Len(inMemory)] = TimedOutMsg(c)
        /\ persisted # <<>> /\ persisted[Len(persisted)] = TimedOutMsg(c)

\* handleSendMessage of call c ended by the timer while generateAnswer is
\* still pending
FinishedByTimeout(c) ==
    /\ hs_calls[c].pc = "done"
    /\ hs_calls[c].timer = "fired"
    /\ EndsWithTimedOut(c)
    /\ ~isLoading

\* C25: in the variant with the 60 s timer, a call of handleSendMessage that
\* waits for generateAnswer either sees generateAnswer settle or is ended by
\* the timer: the 'Request Timed Out' message is then the last message of
\* its thread and isLoading is false
C25_Timeout ==
    \A c \in Sends :
        (app_variant = "part_007" /\ hs_calls[c].pc = "generating")
            ~> (~hs_calls[c].generating \/ FinishedByTimeout(c))

\* the timer ended a call whose generateAnswer has not settled
C25_Witness ==
    \E c \in Sends :
        /\ app_variant = "part_007"
        /\ hs_calls[c].generating
        /\ FinishedByTimeout(c)

\* the step is an invocation of the operation by retryWithBackoff inside
\* generateAnswer of part_001, retrying after a network error
RetriesAfterNetworkError ==
    /\ g_variant = "part_001" /\ g_pc = "awaiting"
    /\ rb_pc = "call" /\ rb_pc' = "pending"
    /\ rb_attempt > 0
    /\ isNetworkError(rb_lastError)

\* C26: an attempt that retries after a network error runs on the client
\* handle that getAIClient holds now, which was created after the reset
C26_ClientReset ==
    [][ RetriesAfterNetworkError =>
            /\ aiInstance # 0
            /\ g_request.ai = aiInstance ]_vars

\* the failed invocations of the operation under withRetry, by their number
WrFailures == {i \in 1..Len(wr_outcomes) : ~wr_outcomes[i].ok}

\* failure i was followed by another invocation, or one is on its way
WrRetried(i) ==
    \/ wr_calls > i
    \/ i = Len(wr_outcomes) /\ wr_pc \in {"sleep", "call"}

\* failure i ended the wrapper, which threw the error it caught
WrPropagated(i) ==
    /\ wr_calls = i
    /\ wr_pc = "threw"
    /\ wr_thrown = wr_outcomes[i].error

\* C27 as the specification states it: withRetry retries only rate-limit,
\* server and network errors, and every other error propagates unchanged with
\* no further invocation of the operation
C27_OnlyRetryable_AsStated ==
    \A i \in WrFailures :
        LET e == wr_outcomes[i].error IN
        /\ WrRetried(i) => isRetryable(e)
        /\ ~isRetryable(e) => WrPropagated(i)

\* C27: withRetry rethrows an AbortError, an error whose message holds
\* 'API key' and an error of status 401 unchanged, with no further invocation
\* of the operation; every other error, of whatever class, is retried while
\* fewer than maxRetries + 1 invocations were made, and the last one is then
\* rethrown unchanged
C27_OnlyRetryable ==
    \A i \in WrFailures :
        LET e == wr_outcomes[i].error IN
        IF e.name = "AbortError" \/ isAuthError(e)
        THEN WrPropagated(i)
        ELSE IF i <= wr_maxRetries
        THEN WrRetried(i)
        ELSE i = wr_maxRetries + 1 /\ WrPropagated(i)

\* a 400 Bad Request was retried, and the retry ended with an authentication
\* failure, which was thrown at once
C27_Witness ==
    /\ wr_pc = "threw"
    /\ Len(wr_outcomes) = 2 /\ wr_calls = 2 /\ wr_maxRetries >= 2
    /\ wr_outcomes[1].error = ErrBadRequest
    /\ ~isRetryable(ErrBadRequest)
    /\ wr_outcomes[2].error = ErrUnauthorized
    /\ wr_thrown = ErrUnauthorized

\* the calls of handleSendMessage that reached generateAnswer
Sent == {c \in Sends : hs_calls[c].pc # "none"}

\* the turns of `contents` that carry the query of call c
QueryTurns(c) ==
    {i \in DOMAIN hs_calls[c].contents :
        /\ hs_calls[c].contents[i].role = "user"
        /\ hs_calls[c].contents[i].text = hs_calls[c].content}

\* no message the thread held before the call has the text of the query
FreshQuery(c) ==
    \A i \in DOMAIN hs_calls[c].currentThread.messages :
        hs_calls[c].currentThread.messages[i].content # hs_calls[c].content

\* C28: the contents handleSendMessage makes generateAnswer pass to the
\* generation call are at most HISTORY_LIMIT history messages, in their
\* order, followed by the current query, and the query occurs in them
\* exactly once, as the final user turn
C28_ContentsSent ==
    \A c \in Sent :
        LET contents == hs_calls[c].contents
            history == historyOf(hs_calls[c].updatedMessages)
            limited == sliceLast(history, HISTORY_LIMIT)
        IN  /\ Len(contents) = Len(limited) + 1
            /\ Len(contents) <= HISTORY_LIMIT + 1
            /\ \A i \in DOMAIN limited :
                   contents[i].text = limited[i].content
            /\ contents[Len(contents)] =
                   [role |-> "user", text |-> hs_calls[c].content]
            /\ FreshQuery(c) => QueryTurns(c) = {Len(contents)}

\* the calls of generateAnswer that have not settled
InFlight == {c \in Sends : hs_calls[c].generating}

\* the calls of handleSendMessage that have not reached their finally block
Handling == {c \in Sends : hs_calls[c].pc \in {"generating", "title"}}

\* C29: in the App component with the Stop button, at most one call of
\* generateAnswer is in flight, isLoading is true while one is in flight and
\* only while a call of handleSendMessage is being handled, and the abort
\* controller of the module, when there is one, is the one of the call in
\* flight
C29_OneInFlight ==
    app_variant = "part_006" =>
        /\ Cardinality(InFlight) <= 1
        /\ InFlight # {} => isLoading
        /\ isLoading => Handling # {}
        /\ \A c \in InFlight :
               currentAbortController \in {0, hs_calls[c].controller}
        /\ currentAbortController # 0 =>
               \E c \in InFlight :
                   hs_calls[c].controller = currentAbortController

\* a later call of startSession has a session that is connecting or open
Superseded(a) ==
    \E b \in Attempts : b > a /\ lv_sessions[b] \in {"connecting", "open"}

\* the step is callbacks.onclose of the session of call a
OnCloseOf(a) ==
    /\ lv_sessions[a] # "closed"
    /\ lv_sessions'[a] = "closed"
    /\ lv_startSession'[a] = lv_startSession[a]

\* C30: the onclose of a session that a later session has superseded changes
\* neither the status nor the error message nor the playback queue
C30_SupersededInert ==
    [][ \A a \in Attempts :
            (Superseded(a) /\ OnCloseOf(a)) =>
                UNCHANGED <<lv_status, lv_errorMessage, lv_audioQueueRef>>
      ]_vars

====
